---- MODULE Spec2Model ----
(***************************************************************************)
(* Token lifecycle of nai_integrations: the credential table of one        *)
(* provider (BaseCloudAuth rows), the service instances that work on it    *)
(* (BaseCloudService and its four provider subclasses), and the clock.     *)
(* Every database statement and every outbound HTTP call is one step, so   *)
(* service instances interleave exactly where the code can be interleaved. *)
(***************************************************************************)
EXTENDS Integers, Sequences, FiniteSets, TLC

\* ------------------------------------------------------------------ bounds
NumUsers == 1
NumServices == 2
MaxCalls == 2

Users == 1..NumUsers
Services == 1..NumServices

\* --------------------------------------------------------------- constants
Providers == {"dropbox", "box", "google", "onedrive"}

\* BaseCloudService.DEFAULT_TOKEN_EXPIRY and DropboxService.DEFAULT_TOKEN_EXPIRY
BASE_DEFAULT_TOKEN_EXPIRY == 3600
DROPBOX_DEFAULT_TOKEN_EXPIRY == 14400
\* the literal fallback of token_data.get("expires_in", 3600) in box/google/onedrive
REFRESH_FALLBACK_EXPIRY == 3600
\* needs_refresh(buffer_minutes=5)
DEFAULT_BUFFER_MINUTES == 5
SECONDS_PER_MINUTE == 60

DEFAULT_TOKEN_EXPIRY(p) ==
    IF p = "dropbox" THEN DROPBOX_DEFAULT_TOKEN_EXPIRY ELSE BASE_DEFAULT_TOKEN_EXPIRY

\* ------------------------------------------------------------ Python values
\* A str or None as held in a TextField: None, a plain string, or a Fernet
\* token produced under some key.
Null == [kind |-> "null", key |-> "", text |-> ""]
Str(t) == [kind |-> "str", key |-> "", text |-> t]
Fernet(k, t) == [kind |-> "fernet", key |-> k, text |-> t]
\* bool(value) of a str or None
Truthy(v) == v.kind = "fernet" \/ (v.kind = "str" /\ v.text # "")

\* a datetime or None; an absent expires_in
NoTime == -1
Absent == -1

\* settings.TOKEN_ENCRYPTION_KEY: unset, a Fernet key, or a string that is
\* not a Fernet key (Fernet(key) raises ValueError)
NoKey == ""
BadKey == "not-a-fernet-key"
KeyChoices == {NoKey, "k1", "k2", BadKey}
ValidKey(k) == k \in {"k1", "k2"}

\* an exception raised to the caller instead of a value
Raised == [kind |-> "raised", key |-> "", text |-> ""]

\* _encrypt_token encrypting under a key of its own
encrypt_token_other_key(k, token) ==
    IF ~Truthy(token) THEN token
    ELSE IF k = NoKey THEN token
    ELSE IF ~ValidKey(k) THEN token
    ELSE Fernet("k0", token.text)

\* _encrypt_token without the check for an unset key
encrypt_token_always(k, token) ==
    IF ~Truthy(token) THEN token
    ELSE Fernet(k, token.text)

\* _encrypt_token returning its argument under every configuration
encrypt_token_plain(k, token) == token

\* BaseCloudAuth._encrypt_token: any exception returns the token itself
encrypt_token(k, token) ==
    IF ~Truthy(token) THEN token
    ELSE IF k = NoKey THEN token
    ELSE IF ~ValidKey(k) THEN token
    ELSE Fernet(k, token.text)

\* _decrypt_token without its except clauses
decrypt_token_raising(k, encrypted) ==
    IF ~Truthy(encrypted) THEN encrypted
    ELSE IF k = NoKey THEN encrypted
    ELSE IF ValidKey(k) /\ encrypted.kind = "fernet" /\ encrypted.key = k
    THEN Str(encrypted.text)
    ELSE Raised

\* BaseCloudAuth._decrypt_token: InvalidToken and any other exception
\* return the stored value
decrypt_token(k, encrypted) ==
    IF ~Truthy(encrypted) THEN encrypted
    ELSE IF k = NoKey THEN encrypted
    ELSE IF ValidKey(k) /\ encrypted.kind = "fernet" /\ encrypted.key = k
    THEN Str(encrypted.text)
    ELSE encrypted

\* ------------------------------------------------------------------ records
\* self.auth = None
NoAuth ==
    [id |-> 0, user |-> 0, access_token |-> Str(""), refresh_token |-> Null,
     token_type |-> "", expires_at |-> NoTime, account_id |-> "", email |-> "",
     display_name |-> "", scopes |-> <<>>, connected_at |-> NoTime,
     is_active |-> FALSE]

HasAuth(a) == a.id # 0

\* BaseCloudAuth.decrypted_access_token / decrypted_refresh_token (getters)
decrypted_access_token(k, a) == decrypt_token(k, a.access_token)
decrypted_refresh_token(k, a) ==
    IF Truthy(a.refresh_token) THEN decrypt_token(k, a.refresh_token) ELSE Null

\* BaseCloudAuth.decrypted_refresh_token (setter)
set_decrypted_refresh_token(k, a, value) ==
    IF Truthy(value)
    THEN [a EXCEPT !.refresh_token = encrypt_token(k, value)]
    ELSE [a EXCEPT !.refresh_token = Null]

\* needs_refresh comparing with > instead of >=
needs_refresh_strict(a, t, buffer_minutes) ==
    IF a.expires_at = NoTime THEN FALSE
    ELSE t > a.expires_at - buffer_minutes * SECONDS_PER_MINUTE

\* BaseCloudAuth.needs_refresh
needs_refresh(a, t, buffer_minutes) ==
    IF a.expires_at = NoTime THEN FALSE
    ELSE t >= a.expires_at - buffer_minutes * SECONDS_PER_MINUTE

\* BaseCloudAuth.is_token_expired
is_token_expired(a, t) ==
    IF a.expires_at = NoTime THEN FALSE ELSE t >= a.expires_at

\* ------------------------------------------------------------------- inputs
\* the clock readings the model visits (seconds)
Times == {0, 300}

\* token responses of the code exchange
TokenResponses ==
    { [access_token |-> "A1", refresh_token |-> Str("R1"), expires_in |-> 600,
       has_scope |-> TRUE, scope |-> <<"files.read", "files.write">>],
      [access_token |-> "A2", refresh_token |-> Null, expires_in |-> Absent,
       has_scope |-> FALSE, scope |-> <<>>] }

\* token responses of the refresh grant
RefreshResponses ==
    { [access_token |-> "A4", refresh_token |-> Str("R2"), expires_in |-> 3600,
       has_scope |-> FALSE, scope |-> <<>>],
      [access_token |-> "A5", refresh_token |-> Null, expires_in |-> 240,
       has_scope |-> FALSE, scope |-> <<>>] }

NoResponse ==
    [access_token |-> "", refresh_token |-> Null, expires_in |-> Absent,
     has_scope |-> FALSE, scope |-> <<>>]

\* raw account info handed to save_tokens; NoAccount is account_info=None
NoAccount == [id |-> "", email |-> "", name |-> ""]
AccountInfos == {NoAccount, [id |-> "acct", email |-> "u@x", name |-> "U"]}

\* BaseCloudService._extract_account_info
extract_account_info(ai) ==
    [account_id |-> ai.id, email |-> ai.email, display_name |-> ai.name]

\* ---------------------------------------------------------------- variables
VARIABLES
    provider,   \* the provider whose table and service class are modelled
    key,        \* settings.TOKEN_ENCRYPTION_KEY
    now,        \* timezone.now()
    rows,       \* the provider's BaseCloudAuth table, in insertion order
    svc,        \* the live service instances: user, self.auth, call in progress
    calls,      \* number of calls begun
    pf,         \* the last direct call of a model method: arguments and result
    web         \* the views' side: sessions, cache, OAuth callbacks in progress

vars == <<provider, key, now, rows, svc, calls, pf, web>>

\* no direct call yet
NoProbe == [fn |-> "none"]

\* the principals (logged-in users), the browser sessions and the callback
\* requests that can be in progress at once
Principals == {1, 2}
Sessions == {1, 2}
Requests == {1, 2}

\* a session without the "<provider>_auth_user_id" and "<provider>_auth_state"
\* keys; no state parameter
NoSession == [user_id |-> 0, state |-> 0]
NoState == 0

\* a callback request slot before any request; seq alternates with every
\* request begun in the slot
IdleRequest ==
    [pc |-> "idle", seq |-> 0, sess |-> 0, code |-> FALSE, state |-> NoState,
     matched |-> FALSE, user |-> 0, td |-> NoResponse, outcome |-> "none",
     exchanged |-> FALSE]

\* no session holds OAuth keys, the cache is empty, no token was issued;
\* owner lists, for every state token issued, the principal whose authorize
\* call made it
NoWeb ==
    [session |-> [c \in Sessions |-> NoSession],
     cache |-> {}, url_cache |-> {}, issued |-> 0, owner |-> <<>>,
     req |-> [r \in Requests |-> IdleRequest]]

\* APIError.status_code = None; also "no response yet" in a frame
NoStatusCode == 0
\* requests.request raised Timeout or ConnectionError: there is no response
NetworkFailure == -1

\* a service instance between calls; self.auth as given. seq alternates with
\* every call begun in the slot, so that a call always changes the frame.
IdleFrame(u, a) ==
    [user |-> u, auth |-> a, seq |-> 0, op |-> "none", pc |-> "idle",
     td |-> NoResponse, ai |-> NoAccount, t0 |-> NoTime,
     result |-> "none", status |-> NoStatusCode, resp |-> NoStatusCode,
     refresh_called |-> FALSE, refresh_ret |-> "none", rr |-> NoResponse,
     requested |-> FALSE, hdr |-> Null]

\* the frame of a call that begins on instance f
BeginCall(f, op) ==
    [IdleFrame(f.user, f.auth) EXCEPT !.op = op, !.seq = 1 - f.seq]

\* ------------------------------------------------------------ the database
\* the row of user u, or NoAuth
RowOf(rs, u) ==
    IF \E i \in 1..Len(rs) : rs[i].user = u
    THEN rs[CHOOSE i \in 1..Len(rs) : rs[i].user = u]
    ELSE NoAuth

\* Model.objects.get(user=u, is_active=True), DoesNotExist as NoAuth
get_active(rs, u) ==
    IF \E i \in 1..Len(rs) : rs[i].user = u /\ rs[i].is_active
    THEN rs[CHOOSE i \in 1..Len(rs) : rs[i].user = u /\ rs[i].is_active]
    ELSE NoAuth

\* the field defaults of a freshly inserted BaseCloudAuth row
NewRow(id, u, t) ==
    [id |-> id, user |-> u, access_token |-> Str(""), refresh_token |-> Null,
     token_type |-> "bearer", expires_at |-> NoTime, account_id |-> "",
     email |-> "", display_name |-> "", scopes |-> <<>>, connected_at |-> t,
     is_active |-> TRUE]

\* setattr(obj, k, v) for every item of defaults
Merge(row, defaults) ==
    [f \in DOMAIN row |-> IF f \in DOMAIN defaults THEN defaults[f] ELSE row[f]]

\* update_or_create looking up (user=u, is_active=True) instead of (user=u)
update_or_create_active_only(rs, u, defaults, t) ==
    IF \E i \in 1..Len(rs) : rs[i].user = u /\ rs[i].is_active
    THEN LET i == CHOOSE j \in 1..Len(rs) : rs[j].user = u /\ rs[j].is_active
         IN  [rs EXCEPT ![i] = Merge(rs[i], defaults)]
    ELSE Append(rs, Merge(NewRow(Len(rs) + 1, u, t), defaults))

\* Model.objects.update_or_create(user=u, defaults=defaults)
update_or_create(rs, u, defaults, t) ==
    IF \E i \in 1..Len(rs) : rs[i].user = u
    THEN LET i == CHOOSE j \in 1..Len(rs) : rs[j].user = u
         IN  [rs EXCEPT ![i] = Merge(rs[i], defaults)]
    ELSE Append(rs, Merge(NewRow(Len(rs) + 1, u, t), defaults))

\* save(update_fields=[access token, expires_at]) in place of the full save
save_token_columns_only(rs, a) ==
    [rs EXCEPT ![a.id].access_token = a.access_token,
               ![a.id].expires_at = a.expires_at]

\* Model.save(): UPDATE of every column of the row with the instance's pk
save(rs, a) == [rs EXCEPT ![a.id] = a]

\* ------------------------------------------------------- service operations
\* BaseCloudService.is_connected
is_connected(a) == HasAuth(a) /\ a.is_active

\* BaseCloudService.get_connection_status
get_connection_status(a) ==
    IF ~is_connected(a)
    THEN [connected |-> FALSE, email |-> Null, display_name |-> Null,
          account_id |-> Null, connected_at |-> NoTime]
    ELSE [connected |-> TRUE, email |-> Str(a.email),
          display_name |-> Str(a.display_name), account_id |-> Str(a.account_id),
          connected_at |-> a.connected_at]

\* save_tokens ignoring the response's expires_in
save_defaults_ignores_expires_in(p, td, ai, t) ==
    LET base == [token_type |-> "bearer", expires_at |-> t + DEFAULT_TOKEN_EXPIRY(p),
                 is_active |-> TRUE]
    IN  IF ai # NoAccount THEN extract_account_info(ai) @@ base ELSE base

\* save_tokens with connected_at among the defaults of the upsert
save_defaults_sets_connected_at(p, td, ai, t) ==
    LET expires_in == IF td.expires_in = Absent THEN DEFAULT_TOKEN_EXPIRY(p)
                      ELSE td.expires_in
        base == [token_type |-> "bearer", expires_at |-> t + expires_in,
                 is_active |-> TRUE, connected_at |-> t]
    IN  IF ai # NoAccount THEN extract_account_info(ai) @@ base ELSE base

\* save_tokens, lines 155-166: expires_at and the defaults of the upsert
save_defaults(p, td, ai, t) ==
    LET expires_in == IF td.expires_in = Absent THEN DEFAULT_TOKEN_EXPIRY(p)
                      ELSE td.expires_in
        base == [token_type |-> "bearer", expires_at |-> t + expires_in,
                 is_active |-> TRUE]
    IN  IF ai # NoAccount THEN extract_account_info(ai) @@ base ELSE base

\* save_tokens assigning decrypted_refresh_token without the guard of line 177
save_tokens_set_unguarded(k, a, td) ==
    LET a1 == [a EXCEPT !.access_token = encrypt_token(k, Str(td.access_token))]
        a2 == set_decrypted_refresh_token(k, a1, td.refresh_token)
    IN  IF td.has_scope THEN [a2 EXCEPT !.scopes = td.scope] ELSE a2

\* save_tokens, lines 175-183: the tokens and scopes set on self.auth
save_tokens_set(k, a, td) ==
    LET a1 == [a EXCEPT !.access_token = encrypt_token(k, Str(td.access_token))]
        a2 == IF Truthy(td.refresh_token)
              THEN set_decrypted_refresh_token(k, a1, td.refresh_token)
              ELSE a1
    IN  IF td.has_scope THEN [a2 EXCEPT !.scopes = td.scope] ELSE a2

\* the fallback of token_data.get("expires_in", ...) in refresh_access_token
refresh_default_expiry(p) ==
    IF p = "dropbox" THEN DEFAULT_TOKEN_EXPIRY(p) ELSE REFRESH_FALLBACK_EXPIRY

\* refresh_access_token forgetting to assign expires_at
refresh_apply_keeps_expiry(p, k, a, r, t) ==
    LET a1 == [a EXCEPT !.access_token = encrypt_token(k, Str(r.access_token))]
    IN  IF p # "dropbox" /\ Truthy(r.refresh_token)
        THEN set_decrypted_refresh_token(k, a1, r.refresh_token)
        ELSE a1

\* refresh_access_token saving without assigning the new access token
refresh_apply_keeps_access_token(p, k, a, r, t) ==
    LET a2 == IF p # "dropbox" /\ Truthy(r.refresh_token)
              THEN set_decrypted_refresh_token(k, a, r.refresh_token)
              ELSE a
        expires_in == IF r.expires_in = Absent THEN refresh_default_expiry(p)
                      ELSE r.expires_in
    IN  [a2 EXCEPT !.expires_at = t + expires_in]

\* refresh_access_token, the assignments made from a 200 response
refresh_apply(p, k, a, r, t) ==
    LET a1 == [a EXCEPT !.access_token = encrypt_token(k, Str(r.access_token))]
        a2 == IF p # "dropbox" /\ Truthy(r.refresh_token)
              THEN set_decrypted_refresh_token(k, a1, r.refresh_token)
              ELSE a1
        expires_in == IF r.expires_in = Absent THEN refresh_default_expiry(p)
                      ELSE r.expires_in
    IN  [a2 EXCEPT !.expires_at = t + expires_in]

\* refresh_access_token up to the POST: "False" is the early return,
\* "ConfigurationError" is _get_credentials raising, "sent" is the POST
refresh_entry(k, a, creds) ==
    IF ~HasAuth(a) \/ ~Truthy(decrypted_refresh_token(k, a)) THEN "False"
    ELSE IF ~creds THEN "ConfigurationError"
    ELSE "sent"

\* _ensure_valid_token up to the first I/O
ensure_valid_token(k, a, t, creds) ==
    IF ~HasAuth(a) THEN "NotConnected"
    ELSE IF needs_refresh(a, t, DEFAULT_BUFFER_MINUTES) THEN refresh_entry(k, a, creds)
    ELSE "valid"

\* _ensure_valid_token ignoring the return value of refresh_access_token
refresh_failed_ignored(f) ==
    LET g == [f EXCEPT !.refresh_ret = "False"]
    IN  CASE f.op = "refresh" -> [g EXCEPT !.pc = "idle", !.result = "False"]
          [] f.op = "ensure" -> [g EXCEPT !.pc = "idle", !.result = "ok"]
          [] OTHER -> [g EXCEPT !.pc = "requesting", !.requested = TRUE,
                                !.hdr = f.auth.access_token]

\* refresh_access_token without its try/except: the exception of the POST
\* leaves the method
refresh_failed_raises(f) ==
    [f EXCEPT !.refresh_ret = "raised", !.pc = "idle", !.result = "RequestException"]

\* what refresh_access_token returning False means to its caller
refresh_failed(f) ==
    LET g == [f EXCEPT !.refresh_ret = "False"]
    IN  CASE f.op = "refresh" -> [g EXCEPT !.pc = "idle", !.result = "False"]
          [] f.op = "disconnect" -> [g EXCEPT !.pc = "deactivate"]
          [] OTHER -> [g EXCEPT !.pc = "idle", !.result = "TokenRefreshError"]

\* _revoke_token without its try/except: the exception leaves disconnect
ensure_raised_propagates(f, e) ==
    [f EXCEPT !.pc = "idle", !.result = e]

\* an exception out of _ensure_valid_token: raised to the caller, or
\* swallowed by DropboxService._revoke_token
ensure_raised(f, e) ==
    IF f.op = "disconnect" THEN [f EXCEPT !.pc = "deactivate"]
    ELSE [f EXCEPT !.pc = "idle", !.result = e]

\* the token is valid: return, or attach the bearer header and send
ensure_passed(k, f) ==
    CASE f.op = "refresh" -> [f EXCEPT !.pc = "idle", !.result = "True"]
      [] f.op = "ensure" -> [f EXCEPT !.pc = "idle", !.result = "ok"]
      [] OTHER -> [f EXCEPT !.pc = "requesting", !.requested = TRUE,
                            !.hdr = decrypted_access_token(k, f.auth)]

\* the frame after _ensure_valid_token has run up to its first I/O
after_ensure(k, f, t, creds) ==
    LET o == ensure_valid_token(k, f.auth, t, creds)
        g == [f EXCEPT !.refresh_called = (o \in {"False", "ConfigurationError", "sent"})]
    IN  CASE o = "NotConnected" -> ensure_raised(g, "NotConnected")
          [] o = "valid" -> ensure_passed(k, g)
          [] o = "False" -> refresh_failed(g)
          [] o = "ConfigurationError" -> ensure_raised(g, "ConfigurationError")
          [] OTHER -> [g EXCEPT !.pc = "refreshing"]

\* Response.raise_for_status raises HTTPError for a 4xx or 5xx status
raise_for_status(status) == 400 <= status /\ status < 600

\* _make_api_request letting the transport's exception through
api_result_raw(status) ==
    IF status = NetworkFailure
    THEN [result |-> "RequestException", status_code |-> NoStatusCode]
    ELSE IF raise_for_status(status)
    THEN [result |-> "APIError", status_code |-> status]
    ELSE [result |-> "ok", status_code |-> NoStatusCode]

\* _make_api_request, lines 260-273: the response is returned, or APIError
\* is raised with the response's status, or without one
api_result(status) ==
    IF status = NetworkFailure
    THEN [result |-> "APIError", status_code |-> NoStatusCode]
    ELSE IF raise_for_status(status)
    THEN [result |-> "APIError", status_code |-> status]
    ELSE [result |-> "ok", status_code |-> NoStatusCode]

\* disconnect, lines 219-224, when the frame says so; else store the frame
Settle(s, f, rs) ==
    IF f.pc = "deactivate"
    THEN LET a == [f.auth EXCEPT !.is_active = FALSE]
         IN  /\ rows' = save(rs, a)
             /\ svc' = [svc EXCEPT ![s] = [f EXCEPT !.auth = a, !.pc = "idle",
                                                     !.result = "True"]]
    ELSE /\ rows' = rs
         /\ svc' = [svc EXCEPT ![s] = f]

\* provider-specific _revoke_token, up to its first I/O
revoke_entry(p, k, f, t, creds) ==
    CASE p = "onedrive" -> [f EXCEPT !.pc = "deactivate"]
      [] p = "box" -> IF creds THEN [f EXCEPT !.pc = "revoking"]
                      ELSE [f EXCEPT !.pc = "deactivate"]
      [] p = "google" -> [f EXCEPT !.pc = "revoking"]
      [] OTHER -> after_ensure(k, f, t, creds)

\* ------------------------------------------------------------------ actions
\* the table after save_tokens(td, ai) has run to completion for user u at
\* time t on table rs
Saved(p, k, rs, u, td, ai, t) ==
    LET rs1 == update_or_create(rs, u, save_defaults(p, td, ai, t), t)
    IN  save(rs1, save_tokens_set(k, RowOf(rs1, u), td))

\* the tables the model starts from: empty, or user 1 connected at time 0
InitialTables(p, k) ==
    { <<>> } \cup
    { Saved(p, k, <<>>, 1, td, ai, 0) :
        td \in {r \in TokenResponses : Truthy(r.refresh_token)},
        ai \in AccountInfos \ {NoAccount} }

\* an encryption key is configured; every instance has been constructed for
\* user 1 on the initial table (Construct makes instances for the other users)
Init ==
    /\ provider \in Providers
    /\ key = "k1"
    /\ now = 0
    /\ rows \in InitialTables(provider, key)
    /\ svc = [s \in Services |-> IdleFrame(1, get_active(rows, 1))]
    /\ calls = 0
    /\ pf = NoProbe
    /\ web = NoWeb

\* the clock advances
Tick ==
    /\ \E t \in Times : t > now /\ now' = t
    /\ UNCHANGED <<provider, key, rows, svc, calls, pf, web>>

\* BaseCloudService.__init__: a new instance for user u runs _load_auth
Construct(s, u) ==
    /\ svc[s].pc = "idle"
    /\ calls < MaxCalls
    /\ svc' = [svc EXCEPT ![s] =
           [IdleFrame(u, get_active(rows, u)) EXCEPT !.seq = 1 - svc[s].seq]]
    /\ calls' = calls + 1
    /\ UNCHANGED <<provider, key, now, rows, pf, web>>

\* save_tokens up to and including update_or_create
SaveTokens(s, td, ai) ==
    /\ svc[s].pc = "idle"
    /\ calls < MaxCalls
    /\ LET f == svc[s]
           rs == update_or_create(rows, f.user,
                                  save_defaults(provider, td, ai, now), now)
       IN  /\ rows' = rs
           /\ svc' = [svc EXCEPT ![s] =
                  [BeginCall(f, "save_tokens") EXCEPT
                      !.auth = RowOf(rs, f.user), !.pc = "upserted",
                      !.td = td, !.ai = ai, !.t0 = now]]
    /\ calls' = calls + 1
    /\ UNCHANGED <<provider, key, now, pf, web>>

\* save_tokens from the token setters to self.auth.save()
SaveTokensSave(s) ==
    /\ svc[s].pc = "upserted"
    /\ LET f == svc[s]
           a == save_tokens_set(key, f.auth, f.td)
       IN  /\ rows' = save(rows, a)
           /\ svc' = [svc EXCEPT ![s] =
                  [IdleFrame(f.user, a) EXCEPT !.op = f.op, !.result = "ok",
                                               !.seq = f.seq]]
    /\ UNCHANGED <<provider, key, now, calls, pf, web>>

\* refresh_access_token called directly (the sweep's path)
Refresh(s, creds) ==
    /\ svc[s].pc = "idle"
    /\ calls < MaxCalls
    /\ LET f == [BeginCall(svc[s], "refresh") EXCEPT
                    !.refresh_called = TRUE]
           o == refresh_entry(key, f.auth, creds)
       IN  svc' = [svc EXCEPT ![s] =
               CASE o = "False" -> refresh_failed(f)
                 [] o = "ConfigurationError" -> ensure_raised(f, o)
                 [] OTHER -> [f EXCEPT !.pc = "refreshing"]]
    /\ calls' = calls + 1
    /\ UNCHANGED <<provider, key, now, rows, pf, web>>

\* _ensure_valid_token called directly
EnsureValid(s, creds) ==
    /\ svc[s].pc = "idle"
    /\ calls < MaxCalls
    /\ svc' = [svc EXCEPT ![s] =
           after_ensure(key, BeginCall(svc[s], "ensure"),
                        now, creds)]
    /\ calls' = calls + 1
    /\ UNCHANGED <<provider, key, now, rows, pf, web>>

\* _make_api_request up to its first I/O
ApiRequest(s, creds) ==
    /\ svc[s].pc = "idle"
    /\ calls < MaxCalls
    /\ svc' = [svc EXCEPT ![s] =
           after_ensure(key, BeginCall(svc[s], "api"),
                        now, creds)]
    /\ calls' = calls + 1
    /\ UNCHANGED <<provider, key, now, rows, pf, web>>

\* disconnect up to its first I/O
Disconnect(s, creds) ==
    /\ svc[s].pc = "idle"
    /\ calls < MaxCalls
    /\ LET f == BeginCall(svc[s], "disconnect")
       IN  IF ~HasAuth(f.auth)
           THEN /\ svc' = [svc EXCEPT ![s] = [f EXCEPT !.result = "True"]]
                /\ rows' = rows
           ELSE Settle(s, revoke_entry(provider, key, f, now, creds), rows)
    /\ calls' = calls + 1
    /\ UNCHANGED <<provider, key, now, pf, web>>

\* the token endpoint answers the refresh POST with 200 and body r
RefreshOk(s, r) ==
    /\ svc[s].pc = "refreshing"
    /\ LET f == svc[s]
           a == refresh_apply(provider, key, f.auth, r, now)
           g == [f EXCEPT !.auth = a, !.refresh_ret = "True", !.rr = r]
       IN  Settle(s, ensure_passed(key, g), save(rows, a))
    /\ UNCHANGED <<provider, key, now, calls, pf, web>>

\* the refresh POST is rejected by the provider or fails on the network
RefreshFail(s) ==
    /\ svc[s].pc = "refreshing"
    /\ Settle(s, refresh_failed(svc[s]), rows)
    /\ UNCHANGED <<provider, key, now, calls, pf, web>>

\* the provider API request completes with a response of the given status,
\* or fails on the network; DropboxService._revoke_token drops either
RequestDone(s, status) ==
    /\ svc[s].pc = "requesting"
    /\ LET f == svc[s]
           o == api_result(status)
       IN  Settle(s,
               IF f.op = "disconnect" THEN [f EXCEPT !.pc = "deactivate"]
               ELSE [f EXCEPT !.pc = "idle", !.result = o.result,
                              !.status = o.status_code, !.resp = status],
               rows)
    /\ UNCHANGED <<provider, key, now, calls, pf, web>>

\* the revoke POST of Box or Google returns or raises; either way disconnect
\* goes on to deactivate
RevokeDone(s) ==
    /\ svc[s].pc = "revoking"
    /\ Settle(s, [svc[s] EXCEPT !.pc = "deactivate"], rows)
    /\ UNCHANGED <<provider, key, now, calls, pf, web>>

HttpStatuses == {200, 401, 503, NetworkFailure}

Next ==
    \/ Tick
    \/ \E s \in Services, u \in Users : Construct(s, u)
    \/ \E s \in Services, td \in TokenResponses, ai \in AccountInfos :
          SaveTokens(s, td, ai)
    \/ \E s \in Services : SaveTokensSave(s)
    \/ \E s \in Services, creds \in BOOLEAN : Refresh(s, creds)
    \/ \E s \in Services, creds \in BOOLEAN : EnsureValid(s, creds)
    \/ \E s \in Services, creds \in BOOLEAN : ApiRequest(s, creds)
    \/ \E s \in Services, creds \in BOOLEAN : Disconnect(s, creds)
    \/ \E s \in Services, r \in RefreshResponses : RefreshOk(s, r)
    \/ \E s \in Services : RefreshFail(s)
    \/ \E s \in Services, status \in HttpStatuses : RequestDone(s, status)
    \/ \E s \in Services : RevokeDone(s)

Spec == Init /\ [][Next]_vars

\* ------------------------------------------- needs_refresh called directly
MaxProbeMinutes == 10
ProbeTimes == {m * SECONDS_PER_MINUTE : m \in 0..MaxProbeMinutes}
BufferChoices == {0, 4, 5, 10}

InitNeedsRefresh ==
    /\ provider = "dropbox"
    /\ key = NoKey
    /\ now \in ProbeTimes
    /\ rows = <<>>
    /\ svc = [s \in Services |-> IdleFrame(1, NoAuth)]
    /\ calls = 0
    /\ pf = NoProbe
    /\ web = NoWeb

\* auth.needs_refresh(buffer_minutes=b) on a record whose expires_at is e
CallNeedsRefresh(e, b) ==
    /\ pf' = [fn |-> "needs_refresh", expires_at |-> e, t |-> now, buffer |-> b,
              out |-> needs_refresh([NewRow(1, 1, 0) EXCEPT !.expires_at = e], now, b)]
    /\ UNCHANGED <<provider, key, now, rows, svc, calls, web>>

\* auth.needs_refresh() with the default buffer
CallNeedsRefreshDefault(e) ==
    /\ pf' = [fn |-> "needs_refresh", expires_at |-> e, t |-> now,
              buffer |-> DEFAULT_BUFFER_MINUTES,
              out |-> needs_refresh([NewRow(1, 1, 0) EXCEPT !.expires_at = e], now,
                                    DEFAULT_BUFFER_MINUTES)]
    /\ UNCHANGED <<provider, key, now, rows, svc, calls, web>>

NextNeedsRefresh ==
    \/ \E e \in ProbeTimes \cup {NoTime}, b \in BufferChoices : CallNeedsRefresh(e, b)
    \/ \E e \in ProbeTimes \cup {NoTime} : CallNeedsRefreshDefault(e)

SpecNeedsRefresh == InitNeedsRefresh /\ [][NextNeedsRefresh]_vars

\* ------------------------------------------- retry_api_call called directly
MaxRetries == 3

\* the defaults of retry_api_call's keyword arguments
DEFAULT_MAX_RETRIES == 3
DEFAULT_BASE_DELAY == 1
DEFAULT_BACKOFF_FACTOR == 2
DEFAULT_RETRY_ON == {"RequestException", "ConnectionError", "TimeoutError"}

\* the exception classes a wrapped function raises here: requests' HTTPError
\* (raise_for_status), Timeout and ConnectionError, the built-in
\* ConnectionError and TimeoutError, and ValueError
Raisable ==
    {"HTTPError", "Timeout", "RequestsConnectionError", "ConnectionError",
     "TimeoutError", "ValueError"}

\* the classes of this model that an exception of class e is an instance of:
\* requests' HTTPError, Timeout and ConnectionError derive from
\* requests.RequestException
Mro(e) ==
    IF e \in {"HTTPError", "Timeout", "RequestsConnectionError"}
    THEN {e, "RequestException"}
    ELSE {e}

\* `except classes` matching only the exact class
isinstance_exact(e, classes) == e \in classes

\* `except classes as e`: isinstance(e, classes)
isinstance(e, classes) == Mro(e) \cap classes # {}

\* the values of the arguments the model calls retry_api_call with
MaxRetriesChoices == -1..MaxRetries
BaseDelayChoices == {DEFAULT_BASE_DELAY, 3}
BackoffFactorChoices == {DEFAULT_BACKOFF_FACTOR, 3}
RetryOnChoices == {DEFAULT_RETRY_ON, {"TimeoutError", "ValueError"}}

\* what one invocation of func does: return a value or raise
Return(v) == [kind |-> "return", v |-> v]
Raise(e) == [kind |-> "raise", v |-> e]
NoOutcome == [kind |-> "none", v |-> ""]
Outcomes == {Return("v1"), Return("v2")} \cup {Raise(e) : e \in Raisable}

\* backoff_factor ** attempt
RECURSIVE Pow(_, _)
Pow(b, n) == IF n = 0 THEN 1 ELSE b * Pow(b, n - 1)

\* the frame of retry_api_call on entry; with range(max_retries + 1) empty the
\* loop is skipped and `raise last_exception` raises TypeError on None
retry_api_call(max_retries, base_delay, backoff_factor, retry_on) ==
    [fn |-> "retry_api_call", max_retries |-> max_retries,
     base_delay |-> base_delay, backoff_factor |-> backoff_factor,
     retry_on |-> retry_on, attempt |-> 0, hist |-> <<>>, sleeps |-> <<>>,
     last_exception |-> NoOutcome,
     state |-> IF max_retries + 1 <= 0 THEN "raised" ELSE "running",
     out |-> IF max_retries + 1 <= 0 THEN Raise("TypeError") ELSE NoOutcome]

\* the loop body giving up one attempt early
retry_attempt_gives_up_early(p, o) ==
    LET q == [p EXCEPT !.hist = Append(@, o)]
    IN  IF o.kind = "return" THEN [q EXCEPT !.state = "returned", !.out = o]
        ELSE IF isinstance(o.v, p.retry_on)
        THEN IF p.attempt + 1 < p.max_retries
             THEN [q EXCEPT !.last_exception = o, !.attempt = @ + 1,
                            !.sleeps = Append(@, p.base_delay
                                              * Pow(p.backoff_factor, p.attempt))]
             ELSE [q EXCEPT !.last_exception = o, !.state = "raised", !.out = o]
        ELSE [q EXCEPT !.state = "raised", !.out = o]

\* the loop body treating every exception as retryable
retry_attempt_retries_all(p, o) ==
    LET q == [p EXCEPT !.hist = Append(@, o)]
    IN  IF o.kind = "return" THEN [q EXCEPT !.state = "returned", !.out = o]
        ELSE IF p.attempt < p.max_retries
        THEN [q EXCEPT !.last_exception = o, !.attempt = @ + 1,
                       !.sleeps = Append(@, p.base_delay
                                         * Pow(p.backoff_factor, p.attempt))]
        ELSE [q EXCEPT !.last_exception = o, !.state = "raised", !.out = o]

\* the loop body computing the delay from the number of the next attempt
retry_attempt_sleeps_late(p, o) ==
    LET q == [p EXCEPT !.hist = Append(@, o)]
    IN  IF o.kind = "return" THEN [q EXCEPT !.state = "returned", !.out = o]
        ELSE IF isinstance(o.v, p.retry_on)
        THEN IF p.attempt < p.max_retries
             THEN [q EXCEPT !.last_exception = o, !.attempt = @ + 1,
                            !.sleeps = Append(@, p.base_delay
                                              * Pow(p.backoff_factor, p.attempt + 1))]
             ELSE [q EXCEPT !.last_exception = o, !.state = "raised", !.out = o]
        ELSE [q EXCEPT !.state = "raised", !.out = o]

\* one pass of the loop body, lines 311-326, in which func() does o
retry_attempt(p, o) ==
    LET q == [p EXCEPT !.hist = Append(@, o)]
    IN  IF o.kind = "return" THEN [q EXCEPT !.state = "returned", !.out = o]
        ELSE IF isinstance(o.v, p.retry_on)
        THEN IF p.attempt < p.max_retries
             THEN [q EXCEPT !.last_exception = o, !.attempt = @ + 1,
                            !.sleeps = Append(@, p.base_delay
                                              * Pow(p.backoff_factor, p.attempt))]
             ELSE [q EXCEPT !.last_exception = o, !.state = "raised", !.out = o]
        ELSE [q EXCEPT !.state = "raised", !.out = o]

InitRetry ==
    /\ provider = "dropbox"
    /\ key = NoKey
    /\ now = 0
    /\ rows = <<>>
    /\ svc = [s \in Services |-> IdleFrame(1, NoAuth)]
    /\ calls = 0
    /\ pf = NoProbe
    /\ web = NoWeb

\* retry_api_call(func, max_retries, base_delay, backoff_factor, retry_on)
RetryCall(max_retries, base_delay, backoff_factor, retry_on) ==
    /\ pf = NoProbe
    /\ pf' = retry_api_call(max_retries, base_delay, backoff_factor, retry_on)
    /\ UNCHANGED <<provider, key, now, rows, svc, calls, web>>

\* retry_api_call(func) with every keyword argument at its default
RetryCallDefault ==
    /\ pf = NoProbe
    /\ pf' = retry_api_call(DEFAULT_MAX_RETRIES, DEFAULT_BASE_DELAY,
                            DEFAULT_BACKOFF_FACTOR, DEFAULT_RETRY_ON)
    /\ UNCHANGED <<provider, key, now, rows, svc, calls, web>>

\* the next pass of the loop: func() is invoked and does o
RetryAttempt(o) ==
    /\ pf.fn = "retry_api_call"
    /\ pf.state = "running"
    /\ pf.attempt < pf.max_retries + 1
    /\ pf' = retry_attempt(pf, o)
    /\ UNCHANGED <<provider, key, now, rows, svc, calls, web>>

NextRetry ==
    \/ \E n \in MaxRetriesChoices, bd \in BaseDelayChoices,
          bf \in BackoffFactorChoices, ro \in RetryOnChoices :
          RetryCall(n, bd, bf, ro)
    \/ RetryCallDefault
    \/ \E o \in Outcomes : RetryAttempt(o)

SpecRetry == InitRetry /\ [][NextRetry]_vars

\* the loop is one thread: while it can take a step it does
SpecRetryFair == SpecRetry /\ WF_vars(NextRetry)

\* ---------------------------------------------- refresh_expiring_*_tokens
MaxSweepRows == 2

\* cutoff_time = timezone.now() + timedelta(hours=6)
SWEEP_WINDOW_HOURS == 6
SECONDS_PER_HOUR == 3600

\* the time at which the modelled sweep runs
SweepTime == 300

\* the expires_at values of the rows the sweep finds: none, past, now, just
\* after now, at the cutoff and just after the cutoff
SweepExpiries ==
    {NoTime, 0, SweepTime, SweepTime + 1,
     SweepTime + SWEEP_WINDOW_HOURS * SECONDS_PER_HOUR,
     SweepTime + SWEEP_WINDOW_HOURS * SECONDS_PER_HOUR + 1}

\* the row of user u as earlier calls left it
SweepRow(k, u, e, act, rt) ==
    [NewRow(u, u, 0) EXCEPT !.access_token = encrypt_token(k, Str("A1")),
                            !.refresh_token = rt, !.expires_at = e,
                            !.is_active = act]

\* is_active and _refresh_token of the rows the sweep finds: connected with
\* a refresh token, with NULL, with the empty string, and disconnected
SweepRowKinds(k) ==
    {<<TRUE, encrypt_token(k, Str("R1"))>>, <<TRUE, Null>>, <<TRUE, Str("")>>,
     <<FALSE, encrypt_token(k, Str("R1"))>>}

\* the tables the sweep runs on: one row for each of MaxSweepRows users
SweepTables(k) ==
    { [u \in 1..MaxSweepRows |-> SweepRow(k, u, e[u], kd[u][1], kd[u][2])] :
        e \in [1..MaxSweepRows -> SweepExpiries],
        kd \in [1..MaxSweepRows -> SweepRowKinds(k)] }

\* the filter without expires_at__gt=timezone.now()
sweep_filter_includes_expired(r, t) ==
    /\ r.expires_at # NoTime
    /\ r.expires_at <= t + SWEEP_WINDOW_HOURS * SECONDS_PER_HOUR
    /\ r.refresh_token # Null
    /\ r.is_active
    /\ r.refresh_token # Str("")

\* .filter(expires_at__lte=cutoff_time, expires_at__gt=now,
\* _refresh_token__isnull=False, is_active=True).exclude(_refresh_token="")
sweep_filter(r, t) ==
    /\ r.expires_at # NoTime
    /\ r.expires_at <= t + SWEEP_WINDOW_HOURS * SECONDS_PER_HOUR
    /\ r.expires_at > t
    /\ r.refresh_token # Null
    /\ r.is_active
    /\ r.refresh_token # Str("")

\* the users of the rows the queryset yields, in table order
RECURSIVE sweep_select(_, _)
sweep_select(rs, t) ==
    IF rs = <<>> THEN <<>>
    ELSE IF sweep_filter(Head(rs), t)
    THEN <<Head(rs).user>> \o sweep_select(Tail(rs), t)
    ELSE sweep_select(Tail(rs), t)

\* the task's frame once the queryset is evaluated; with nothing selected it
\* returns at once
sweep_begin(rs, t) ==
    LET sel == sweep_select(rs, t)
    IN  [fn |-> "sweep", t0 |-> t, selected |-> sel, idx |-> 1,
         attempted |-> <<>>, outcomes |-> <<>>, success_count |-> 0,
         state |-> IF sel = <<>> THEN "returned" ELSE "looping",
         result |-> [success |-> (sel = <<>>), tokens_refreshed |-> 0]]

\* the loop without the try/except around one record
sweep_collect_aborts(p, outcome) ==
    LET q == [p EXCEPT !.outcomes = Append(@, outcome),
                       !.success_count = IF outcome = "True" THEN @ + 1 ELSE @,
                       !.idx = @ + 1]
    IN  IF outcome \notin {"True", "False"}
        THEN [q EXCEPT !.state = "raised"]
        ELSE IF q.idx > Len(q.selected)
        THEN [q EXCEPT !.state = "returned",
                       !.result = [success |-> TRUE,
                                   tokens_refreshed |-> q.success_count]]
        ELSE [q EXCEPT !.state = "looping"]

\* lines 46-53: one record's refresh returned True or False, or raised and
\* was logged; the loop goes on, and after the last record the task returns
sweep_collect(p, outcome) ==
    LET q == [p EXCEPT !.outcomes = Append(@, outcome),
                       !.success_count = IF outcome = "True" THEN @ + 1 ELSE @,
                       !.idx = @ + 1]
    IN  IF q.idx > Len(q.selected)
        THEN [q EXCEPT !.state = "returned",
                       !.result = [success |-> TRUE,
                                   tokens_refreshed |-> q.success_count]]
        ELSE [q EXCEPT !.state = "looping"]

InitSweep ==
    /\ provider \in Providers
    /\ key = "k1"
    /\ now = SweepTime
    /\ rows \in SweepTables(key)
    /\ svc = [s \in Services |-> IdleFrame(1, NoAuth)]
    /\ calls = 0
    /\ pf = NoProbe
    /\ web = NoWeb

\* the task starts: the queryset is built and evaluated
SweepStart ==
    /\ pf = NoProbe
    /\ pf' = sweep_begin(rows, now)
    /\ UNCHANGED <<provider, key, now, rows, svc, calls, web>>

\* the loop body for the next record: a service is constructed for its user
\* and refresh_access_token runs up to its POST
SweepAttempt(creds) ==
    /\ pf.fn = "sweep" /\ pf.state = "looping"
    /\ LET u == pf.selected[pf.idx]
           f == [BeginCall([svc[1] EXCEPT !.user = u, !.auth = get_active(rows, u)],
                           "refresh") EXCEPT !.refresh_called = TRUE]
           o == refresh_entry(key, f.auth, creds)
           p == [pf EXCEPT !.attempted = Append(@, u)]
       IN  CASE o = "sent" ->
                  /\ svc' = [svc EXCEPT ![1] = [f EXCEPT !.pc = "refreshing"]]
                  /\ pf' = [p EXCEPT !.state = "refreshing"]
             [] o = "False" ->
                  /\ svc' = [svc EXCEPT ![1] = refresh_failed(f)]
                  /\ pf' = sweep_collect(p, o)
             [] OTHER ->
                  /\ svc' = [svc EXCEPT ![1] = ensure_raised(f, o)]
                  /\ pf' = sweep_collect(p, o)
    /\ UNCHANGED <<provider, key, now, rows, calls, web>>

\* the record's refresh POST is answered with 200 and body r
SweepRefreshOk(r) ==
    /\ pf.fn = "sweep" /\ pf.state = "refreshing"
    /\ LET f == svc[1]
           a == refresh_apply(provider, key, f.auth, r, now)
       IN  /\ rows' = save(rows, a)
           /\ svc' = [svc EXCEPT ![1] =
                  ensure_passed(key, [f EXCEPT !.auth = a, !.refresh_ret = "True",
                                               !.rr = r])]
    /\ pf' = sweep_collect(pf, "True")
    /\ UNCHANGED <<provider, key, now, calls, web>>

\* the record's refresh POST is rejected or fails on the network
SweepRefreshFail ==
    /\ pf.fn = "sweep" /\ pf.state = "refreshing"
    /\ svc' = [svc EXCEPT ![1] = refresh_failed(svc[1])]
    /\ pf' = sweep_collect(pf, "False")
    /\ UNCHANGED <<provider, key, now, rows, calls, web>>

NextSweep ==
    \/ SweepStart
    \/ \E creds \in BOOLEAN : SweepAttempt(creds)
    \/ \E r \in RefreshResponses : SweepRefreshOk(r)
    \/ SweepRefreshFail

SpecSweep == InitSweep /\ [][NextSweep]_vars

\* the task is one thread and its POSTs have a timeout: it keeps going
SpecSweepFair == SpecSweep /\ WF_vars(NextSweep)

\* ================================================================== claims
\* expires_in of a token response, d when the response has none
ExpiresIn(r, d) == IF r.expires_in = Absent THEN d ELSE r.expires_in

\* instance s takes this step
Steps(s) == svc'[s] # svc[s]

\* C1: in every reachable state each user has at most one row in the
\* provider's table, hence at most one active row: save_tokens for a user who
\* has a row, active or not, updates it.
C1_OneRecordPerUser ==
    \A u \in Users :
        /\ Cardinality({i \in 1..Len(rows) : rows[i].user = u}) <= 1
        /\ Cardinality({i \in 1..Len(rows) : rows[i].user = u /\ rows[i].is_active}) <= 1

\* C1 witness: save_tokens has completed for a user whom another instance
\* had disconnected, and the one row is active again.
C1_Reactivated ==
    \E s, t \in Services :
        /\ svc[s].op = "save_tokens" /\ svc[s].result = "ok"
        /\ svc[t].op = "disconnect" /\ svc[t].result = "True"
        /\ svc[t].user = svc[s].user
        /\ HasAuth(svc[t].auth) /\ ~svc[t].auth.is_active
        /\ RowOf(rows, svc[s].user).is_active

\* C2 (as claimed): every stored row with is_active = TRUE has a non-empty
\* access_token column, in every state another caller can read.
C2_ActiveHasAccessToken ==
    \A i \in 1..Len(rows) : rows[i].is_active => Truthy(rows[i].access_token)

\* C3 (as claimed): a row is inserted, or goes from inactive to active, only
\* in a step of a save_tokens call.
C3_OnlySaveTokensActivates ==
    [][\A i \in 1..Len(rows') :
          (i > Len(rows) \/ (~rows[i].is_active /\ rows'[i].is_active))
          => \E s \in Services : Steps(s) /\ svc'[s].op = "save_tokens"]_vars

\* C4 (as claimed): a call of _ensure_valid_token or _make_api_request on an
\* instance whose is_connected() is false ends with the not-connected error
\* and has called neither refresh_access_token nor the provider API.
C4_NotConnectedRefused ==
    \A s \in Services :
        (svc[s].op \in {"ensure", "api"} /\ ~is_connected(svc[s].auth))
        => /\ svc[s].result = "NotConnected"
           /\ ~svc[s].refresh_called
           /\ ~svc[s].requested

\* C5: in a call of _ensure_valid_token or _make_api_request, the step in
\* which refresh_access_token returns False raises TokenRefreshError, issues
\* no API request and writes nothing; neither does the step that sends the
\* refresh POST.
C5_RefreshFailureRaises ==
    [][\A s \in Services :
          (Steps(s) /\ svc'[s].op \in {"ensure", "api"})
          => /\ svc'[s].refresh_ret = "False"
                => /\ svc'[s].pc = "idle"
                   /\ svc'[s].result = "TokenRefreshError"
                   /\ ~svc'[s].requested
                   /\ rows' = rows
             /\ svc'[s].pc = "refreshing" => rows' = rows]_vars

\* C5 witness: an API call whose refresh POST failed has ended with
\* TokenRefreshError.
C5_RefreshFailedSeen ==
    \E s \in Services :
        /\ svc[s].op = "api" /\ svc[s].pc = "idle"
        /\ svc[s].refresh_called /\ svc[s].refresh_ret = "False"
        /\ Truthy(svc[s].auth.refresh_token)
        /\ svc[s].result = "TokenRefreshError"

\* the step in which _ensure_valid_token returns without raising
EnsureReturns(s) ==
    /\ Steps(s)
    /\ \/ svc'[s].op = "ensure" /\ svc'[s].result = "ok"
       \/ svc'[s].op \in {"api", "disconnect"} /\ svc'[s].pc = "requesting"

\* C6 (as claimed): when _ensure_valid_token returns without raising,
\* needs_refresh() of self.auth is false at that moment.
C6_ReturnClearsPending ==
    [][\A s \in Services :
          EnsureReturns(s)
          => ~needs_refresh(svc'[s].auth, now', DEFAULT_BUFFER_MINUTES)]_vars

\* C6 (amended): when _ensure_valid_token returns without raising,
\* needs_refresh() of self.auth is false at that moment, unless it refreshed
\* and the lifetime of the new token (expires_in of the refresh response, the
\* provider's fallback when absent) is at most the five-minute buffer.
C6_ReturnClearsPendingIfLongLived ==
    [][\A s \in Services :
          EnsureReturns(s)
          => \/ ~needs_refresh(svc'[s].auth, now', DEFAULT_BUFFER_MINUTES)
             \/ /\ svc'[s].refresh_ret = "True"
                /\ ExpiresIn(svc'[s].rr, refresh_default_expiry(provider))
                       <= DEFAULT_BUFFER_MINUTES * SECONDS_PER_MINUTE]_vars

\* C6 witness: _ensure_valid_token has refreshed with a long-lived token and
\* returned; the record no longer needs a refresh.
C6_RefreshedAndValid ==
    \E s \in Services :
        /\ svc[s].op = "ensure" /\ svc[s].result = "ok"
        /\ svc[s].refresh_ret = "True"
        /\ ExpiresIn(svc[s].rr, refresh_default_expiry(provider))
               > DEFAULT_BUFFER_MINUTES * SECONDS_PER_MINUTE
        /\ ~needs_refresh(svc[s].auth, now, DEFAULT_BUFFER_MINUTES)

\* C7: needs_refresh(buffer) returns true exactly when expires_at is set and
\* now >= expires_at - buffer; with the default buffer a token expiring in 4
\* minutes needs a refresh, one expiring in 10 minutes does not, and a record
\* without expires_at never does.
C7_NeedsRefreshIff ==
    pf.fn = "needs_refresh" =>
        /\ pf.out = (/\ pf.expires_at # NoTime
                     /\ pf.t + pf.buffer * SECONDS_PER_MINUTE >= pf.expires_at)
        /\ (pf.buffer = 5 /\ pf.expires_at = pf.t + 240) => pf.out
        /\ (pf.buffer = 5 /\ pf.expires_at = pf.t + 600) => ~pf.out
        /\ pf.expires_at = NoTime => ~pf.out

\* C7 witness: needs_refresh() was called exactly at expires_at - buffer and
\* returned true.
C7_AtTheBoundary ==
    /\ pf.fn = "needs_refresh"
    /\ pf.expires_at # NoTime
    /\ pf.buffer = DEFAULT_BUFFER_MINUTES
    /\ pf.t = pf.expires_at - DEFAULT_BUFFER_MINUTES * SECONDS_PER_MINUTE
    /\ pf.out

\* C8: save_tokens with a response without refresh_token leaves the stored
\* refresh token as it was when the call read the row: update_or_create does
\* not touch the column, and save() writes back the value it read.
C8_RefreshTokenKept ==
    [][\A s \in Services :
          /\ (svc[s].pc = "idle" /\ svc'[s].pc = "upserted"
                 /\ HasAuth(RowOf(rows, svc[s].user)))
             => /\ RowOf(rows', svc[s].user).refresh_token
                       = RowOf(rows, svc[s].user).refresh_token
                /\ svc'[s].auth.refresh_token
                       = RowOf(rows, svc[s].user).refresh_token
          /\ (svc[s].pc = "upserted" /\ svc'[s].pc = "idle"
                 /\ ~Truthy(svc[s].td.refresh_token))
             => RowOf(rows', svc[s].user).refresh_token
                    = svc[s].auth.refresh_token]_vars

\* C8 witness: save_tokens has completed with the response that carries no
\* refresh_token, and the row still holds the refresh token R1.
C8_KeptSeen ==
    \E s \in Services :
        /\ svc[s].op = "save_tokens" /\ svc[s].result = "ok"
        /\ decrypted_access_token(key, RowOf(rows, svc[s].user)) = Str("A2")
        /\ decrypted_refresh_token(key, RowOf(rows, svc[s].user)) = Str("R1")

\* C9: when save_tokens completes, the row holds expires_at = T0 + expires_in
\* (the provider default when absent) and decrypts to the response's tokens;
\* a successful refresh leaves expires_at = T1 + expires_in; and a stored
\* expires_at changes only to such a value, or to the value held by the
\* instance whose save() writes the row.
C9_ExpiryIsNowPlusExpiresIn ==
    [][/\ \A s \in Services :
             /\ (svc[s].pc = "upserted" /\ svc'[s].pc = "idle")
                => LET r == RowOf(rows', svc[s].user)
                       td == svc[s].td
                   IN  /\ r.expires_at
                              = svc[s].t0 + ExpiresIn(td, DEFAULT_TOKEN_EXPIRY(provider))
                       /\ decrypted_access_token(key, r) = Str(td.access_token)
                       /\ Truthy(td.refresh_token)
                              => decrypted_refresh_token(key, r) = td.refresh_token
             /\ (svc[s].pc = "refreshing" /\ svc'[s].refresh_ret = "True"
                    /\ svc'[s].rr.expires_in # Absent)
                => RowOf(rows', svc[s].user).expires_at = now + svc'[s].rr.expires_in
       /\ \A i \in 1..Len(rows') :
             \/ i <= Len(rows) /\ rows'[i].expires_at = rows[i].expires_at
             \/ \E s \in Services :
                   /\ Steps(s)
                   /\ \/ /\ svc'[s].pc = "upserted"
                         /\ rows'[i].expires_at
                                = now + ExpiresIn(svc'[s].td, DEFAULT_TOKEN_EXPIRY(provider))
                      \/ /\ svc[s].pc = "refreshing" /\ svc'[s].refresh_ret = "True"
                         /\ rows'[i].expires_at
                                = now + ExpiresIn(svc'[s].rr, refresh_default_expiry(provider))
                      \/ /\ HasAuth(svc[s].auth)
                         /\ rows'[i].expires_at = svc[s].auth.expires_at]_vars

\* C9 witness: save_tokens called at T0 = 300 with {A1, R1, 600} has
\* completed and the row holds expires_at = 900 and decrypts to A1 and R1.
C9_SavedSeen ==
    \E s \in Services :
        /\ svc[s].op = "save_tokens" /\ svc[s].result = "ok"
        /\ RowOf(rows, svc[s].user).expires_at = 300 + 600
        /\ decrypted_access_token(key, RowOf(rows, svc[s].user)) = Str("A1")
        /\ decrypted_refresh_token(key, RowOf(rows, svc[s].user)) = Str("R1")

\* C10 (as claimed): no step of a disconnect call on a connected instance
\* that holds the row as stored changes the stored access token, refresh
\* token or expires_at, and the call ends with the row inactive.
C10_DisconnectKeepsTokens ==
    [][\A s \in Services :
          (/\ Steps(s) /\ svc'[s].op = "disconnect"
           /\ is_connected(svc[s].auth)
           /\ svc[s].auth = RowOf(rows, svc[s].user))
          => LET r == RowOf(rows, svc[s].user)
                 q == RowOf(rows', svc[s].user)
             IN  /\ q.access_token = r.access_token
                 /\ q.refresh_token = r.refresh_token
                 /\ q.expires_at = r.expires_at
                 /\ svc'[s].pc = "idle" => ~q.is_active]_vars

C12_SecondDisconnectIsNoOp ==
    [][\A s \in Services :
          (/\ Steps(s) /\ svc[s].pc = "idle" /\ svc'[s].op = "disconnect"
           /\ \E t \in Services :
                 /\ svc[t].op = "disconnect" /\ svc[t].result = "True"
                 /\ svc[t].user = svc[s].user
           /\ HasAuth(RowOf(rows, svc[s].user))
           /\ ~RowOf(rows, svc[s].user).is_active)
          => /\ svc'[s].pc = "idle"
             /\ svc'[s].result = "True"
             /\ ~svc'[s].refresh_called
             /\ ~svc'[s].requested
             /\ rows' = rows]_vars

\* C13 (as claimed): on every instance between calls, is_connected() is true
\* exactly when the store holds an active row for the instance's user, and
\* get_connection_status() returns connected = TRUE with that row's email,
\* display name, account id and connected_at in that case and the all-None
\* answer otherwise.
C13_StatusMatchesStore ==
    \A s \in Services :
        svc[s].pc = "idle" =>
            LET r == get_active(rows, svc[s].user)
            IN  /\ is_connected(svc[s].auth) = HasAuth(r)
                /\ get_connection_status(svc[s].auth) = get_connection_status(r)

\* every invocation so far raised an exception that `except retry_on` catches
AllTransient(hist, retry_on) ==
    \A i \in 1..Len(hist) :
        hist[i].kind = "raise" /\ Mro(hist[i].v) \cap retry_on # {}

\* C14: with max_retries = n >= 0 and a function that has raised a retryable
\* exception at every invocation, retry_api_call has made at most n + 1
\* invocations, is still running before the (n+1)-th, and after the (n+1)-th
\* has terminated by raising the exception of that last invocation; and every
\* call of retry_api_call terminates.
C14_RetryTerminates ==
    /\ [](pf.fn = "retry_api_call" /\ pf.max_retries >= 0
             /\ AllTransient(pf.hist, pf.retry_on)
          => /\ Len(pf.hist) <= pf.max_retries + 1
             /\ Len(pf.hist) < pf.max_retries + 1 => pf.state = "running"
             /\ Len(pf.hist) = pf.max_retries + 1
                => /\ pf.state = "raised"
                   /\ pf.out = pf.hist[pf.max_retries + 1])
    /\ <>(pf.fn = "retry_api_call" /\ pf.state # "running")

\* C14 witness: with max_retries = 3 the function raised requests' Timeout
\* four times and retry_api_call raised it on.
C14_FourInvocationsThenRaised ==
    /\ pf.fn = "retry_api_call"
    /\ pf.max_retries = 3
    /\ Len(pf.hist) = 4
    /\ \A i \in 1..4 : pf.hist[i] = Raise("Timeout")
    /\ pf.state = "raised" /\ pf.out = Raise("Timeout")

\* C15: when the function returns a value at its k-th invocation after k - 1
\* retryable failures, 1 <= k <= max_retries + 1, retry_api_call has made
\* that k-th invocation (it was still running after the k - 1 failures) and
\* has returned that value without a further invocation; a function that
\* returns at once has been invoked once.
C15_ReturnsFirstSuccess ==
    (pf.fn = "retry_api_call" /\ pf.max_retries >= 0) =>
        LET k == Len(pf.hist)
        IN  /\ (k < pf.max_retries + 1 /\ AllTransient(pf.hist, pf.retry_on))
               => pf.state = "running"
            /\ (k >= 1 /\ pf.hist[k].kind = "return")
               => /\ k <= pf.max_retries + 1
                  /\ AllTransient(SubSeq(pf.hist, 1, k - 1), pf.retry_on)
                  /\ pf.state = "returned"
                  /\ pf.out = pf.hist[k]
            /\ pf.state = "returned" => (k >= 1 /\ pf.hist[k].kind = "return")

\* C15 witness: with max_retries = 3 the function failed three times and
\* returned v2 at its fourth invocation, which retry_api_call returned.
C15_SucceededAtLastAttempt ==
    /\ pf.fn = "retry_api_call"
    /\ pf.max_retries = 3
    /\ Len(pf.hist) = 4
    /\ AllTransient(SubSeq(pf.hist, 1, 3), pf.retry_on)
    /\ pf.hist[4] = Return("v2")
    /\ pf.state = "returned" /\ pf.out = Return("v2")

\* C16: when an invocation raises an exception that `except retry_on` does
\* not catch, retry_api_call has raised that exception: it is the last
\* invocation, and the only sleeps are the ones after the earlier failures.
C16_NonRetryablePropagates ==
    pf.fn = "retry_api_call" =>
        \A i \in 1..Len(pf.hist) :
            (pf.hist[i].kind = "raise" /\ Mro(pf.hist[i].v) \cap pf.retry_on = {})
            => /\ i = Len(pf.hist)
               /\ pf.state = "raised"
               /\ pf.out = pf.hist[i]
               /\ Len(pf.sleeps) = i - 1

\* C16 witness: after a retried Timeout the function raised ValueError at its
\* second invocation, and retry_api_call raised it with retries left.
C16_RaisedAtSecondAttempt ==
    /\ pf.fn = "retry_api_call"
    /\ pf.retry_on = DEFAULT_RETRY_ON
    /\ pf.max_retries = 3
    /\ pf.hist = <<Raise("Timeout"), Raise("ValueError")>>
    /\ pf.state = "raised" /\ pf.out = Raise("ValueError")
    /\ Len(pf.sleeps) = 1

\* C17 (as claimed): with the default retry_on, when the function's first
\* invocation raises requests' HTTPError (raise_for_status on a 4xx/5xx
\* response), retry_api_call has raised it after that single invocation and
\* has not slept.
C17_HttpErrorNotRetried ==
    (/\ pf.fn = "retry_api_call"
     /\ pf.retry_on = DEFAULT_RETRY_ON
     /\ Len(pf.hist) >= 1
     /\ pf.hist[1] = Raise("HTTPError"))
    => /\ Len(pf.hist) = 1
       /\ pf.state = "raised"
       /\ pf.out = Raise("HTTPError")
       /\ pf.sleeps = <<>>

\* C18: the step that ends a _make_api_request call after its request was
\* sent returns the response, or raises APIError: with status_code equal to
\* the response's status when that is 4xx or 5xx, and with status_code None
\* when the request failed on the network. Nothing else comes out.
C18_FailuresBecomeAPIError ==
    [][\A s \in Services :
          (Steps(s) /\ svc[s].pc = "requesting" /\ svc[s].op = "api")
          => LET g == svc'[s]
             IN  /\ g.pc = "idle"
                 /\ g.result \in {"ok", "APIError"}
                 /\ g.resp \in 400..599
                    => (g.result = "APIError" /\ g.status = g.resp)
                 /\ g.resp = NetworkFailure
                    => (g.result = "APIError" /\ g.status = NoStatusCode)
                 /\ g.result = "APIError"
                    => (g.resp \in 400..599 \/ g.resp = NetworkFailure)]_vars

\* C18 witness: one API call has ended in APIError without a status code
\* after a network failure, another in APIError 503 after the provider
\* answered 503.
C18_BothKindsSeen ==
    \E s, t \in Services :
        /\ svc[s].op = "api" /\ svc[s].requested
        /\ svc[s].resp = NetworkFailure
        /\ svc[s].result = "APIError" /\ svc[s].status = NoStatusCode
        /\ svc[t].op = "api" /\ svc[t].requested
        /\ svc[t].resp = 503
        /\ svc[t].result = "APIError" /\ svc[t].status = 503

\* the elements of a sequence
Range(q) == {q[i] : i \in 1..Len(q)}

\* C19: the sweep selects exactly the users whose row is active, has a
\* refresh token that is neither NULL nor empty, and has expires_at within
\* (now, now + 6 hours]; and it attempts a refresh for selected users only.
C19_SweepSelectsExpiringOnly ==
    [][/\ (pf = NoProbe /\ pf'.fn = "sweep")
          => /\ Range(pf'.selected)
                  = {rows[i].user : i \in
                      {j \in 1..Len(rows) :
                          /\ rows[j].is_active
                          /\ Truthy(rows[j].refresh_token)
                          /\ rows[j].expires_at # NoTime
                          /\ now < rows[j].expires_at
                          /\ rows[j].expires_at
                                 <= now + SWEEP_WINDOW_HOURS * SECONDS_PER_HOUR}}
             /\ Cardinality(Range(pf'.selected)) = Len(pf'.selected)
       /\ pf'.fn = "sweep" => Range(pf'.attempted) \subseteq Range(pf'.selected)]_vars

\* C19 witness: of two connected users with refresh tokens, one expiring
\* within the window and one a second after the cutoff, the sweep has
\* attempted the first only and returned.
C19_OnlyTheExpiringOneAttempted ==
    /\ pf.fn = "sweep" /\ pf.state = "returned"
    /\ pf.selected = <<1>> /\ pf.attempted = <<1>>
    /\ Len(rows) >= 2
    /\ rows[2].is_active /\ Truthy(rows[2].refresh_token)
    /\ rows[2].expires_at = pf.t0 + SWEEP_WINDOW_HOURS * SECONDS_PER_HOUR + 1

\* C20: during a sweep the records attempted so far are the first of the
\* selected ones in order, none twice, whatever the earlier attempts gave
\* (True, False or an exception); the sweep ends only by returning, after
\* every selected record was attempted once; and every sweep ends.
C20_SweepAttemptsEachOnce ==
    /\ [](pf.fn = "sweep"
          => /\ pf.state \in {"looping", "refreshing", "returned"}
             /\ Len(pf.attempted) <= Len(pf.selected)
             /\ pf.attempted = SubSeq(pf.selected, 1, Len(pf.attempted))
             /\ Cardinality(Range(pf.attempted)) = Len(pf.attempted)
             /\ pf.state = "returned"
                => /\ pf.attempted = pf.selected
                   /\ Len(pf.outcomes) = Len(pf.selected)
                   /\ pf.result.success)
    /\ <>(pf.fn = "sweep" /\ pf.state = "returned")

\* C20 witness: the first record's refresh raised or returned False, the
\* second record's refresh succeeded, and the sweep has returned.
C20_WentOnAfterFailure ==
    /\ pf.fn = "sweep" /\ pf.state = "returned"
    /\ Len(pf.selected) = 2
    /\ pf.outcomes[1] = "ConfigurationError"
    /\ pf.outcomes[2] = "True"
    /\ pf.result = [success |-> TRUE, tokens_refreshed |-> 1]

\* C21 (as claimed): the result a sweep returns carries the number of
\* selected records as "attempted" and the number of refreshes that returned
\* True as "succeeded", with succeeded <= attempted.
C21_SweepReturnsBothCounts ==
    (pf.fn = "sweep" /\ pf.state = "returned") =>
        /\ "attempted" \in DOMAIN pf.result
        /\ "succeeded" \in DOMAIN pf.result
        /\ pf.result["attempted"] = Len(pf.selected)
        /\ pf.result["succeeded"]
               = Cardinality({i \in 1..Len(pf.outcomes) : pf.outcomes[i] = "True"})
        /\ pf.result["succeeded"] <= pf.result["attempted"]

\* ---------------------------------------------------------------------------
\* The OAuth views: authorize stores a state token, callback verifies it
\* ---------------------------------------------------------------------------

\* how many web requests (authorize and callback) the model makes
MaxRequests == 3

\* onedrive keeps the state in the cache, the others in the session
StateInCache(p) == p = "onedrive"

\* the session's keys are deleted right after verification (google), or only
\* at the end of a successful callback (dropbox, box)
ClearsAfterVerification(p) == p = "google"
ClearsOnSuccess(p) == p \in {"dropbox", "box"}

\* the callback returns the error page when the code is missing, before
\* it looks at the state
callback_checks_code(p) == p \in {"dropbox", "box", "onedrive"}

\* cache.get returning the value of some entry, whatever its key
cache_get_any(cache, state) ==
    IF cache # {} THEN (CHOOSE e \in cache : TRUE)[2] ELSE 0

\* cache.get("nai_onedrive_state:<state>"): the user id stored, 0 for None
cache_get(cache, state) ==
    IF \E e \in cache : e[1] = state
    THEN (CHOOSE e \in cache : e[1] = state)[2]
    ELSE 0

\* cache.delete("nai_onedrive_state:<state>")
cache_delete(cache, state) == {e \in cache : e[1] # state}

\* the state the callback compares with and the user it acts for: the
\* session's keys, or the cache entry of the state presented
expected_state(p, w, c, state) ==
    IF StateInCache(p)
    THEN (IF cache_get(w.cache, state) # 0 THEN state ELSE NoState)
    ELSE w.session[c].state

stored_user(p, w, c, state) ==
    IF StateInCache(p) THEN cache_get(w.cache, state) ELSE w.session[c].user_id

\* the checks of the callback view in the order of the code: "error" for an
\* error page, "pass" when the view goes on to the exchange
callback_verdict(p, w, c, code, state, error) ==
    IF error THEN "error"
    ELSE IF callback_checks_code(p) /\ ~code THEN "error"
    ELSE IF state = NoState \/ expected_state(p, w, c, state) = NoState
            \/ state # expected_state(p, w, c, state) THEN "error"
    ELSE IF stored_user(p, w, c, state) = 0 THEN "error"
    ELSE "pass"

\* a variant that leaves the keys in the session
clear_session_keeps(w, c) == w

\* the session without the two OAuth keys
clear_session(w, c) == [w EXCEPT !.session[c] = NoSession]

\* what a passed verification deletes before the exchange
clear_after_verification(p, w, c, state) ==
    IF StateInCache(p) THEN [w EXCEPT !.cache = cache_delete(w.cache, state)]
    ELSE IF ClearsAfterVerification(p) THEN clear_session(w, c)
    ELSE w

\* what a successful callback deletes at its end
clear_on_success(p, w, c) ==
    IF ClearsOnSuccess(p) THEN clear_session(w, c) ELSE w

\* the redirect URI the views pass on
CALLBACK_URL == "cb"

\* cache.set("nai_onedrive_state_<user>_<state>", redirect_uri)
url_cache_set(c, u, state, redirect_uri) ==
    {e \in c : ~(e[1] = u /\ e[2] = state)} \cup {<<u, state, redirect_uri>>}

\* authorize: a fresh state token is stored for the logged-in user u, in the
\* session c or in the cache; onedrive's get_authorization_url also caches
\* the redirect URI under the user and the state
Authorize(c, u) ==
    /\ calls < MaxRequests
    /\ LET state == web.issued + 1
           w1 == [web EXCEPT !.issued = state, !.owner = Append(@, u)]
       IN  web' = IF StateInCache(provider)
                  THEN [w1 EXCEPT !.cache = cache_delete(@, state) \cup {<<state, u>>},
                                  !.url_cache = url_cache_set(@, u, state, CALLBACK_URL)]
                  ELSE [w1 EXCEPT !.session[c] = [user_id |-> u, state |-> state]]
    /\ calls' = calls + 1
    /\ UNCHANGED <<provider, key, now, rows, svc, pf>>

\* callback, up to the exchange: the request's parameters are checked; a
\* request that passes goes on to exchange the code
CallbackBegin(r, c, code, state, error) ==
    /\ web.req[r].pc = "idle"
    /\ calls < MaxRequests
    /\ LET verdict == callback_verdict(provider, web, c, code, state, error)
           f0 == [IdleRequest EXCEPT !.seq = 1 - web.req[r].seq, !.sess = c,
                                     !.code = code, !.state = state,
                                     !.matched = state # NoState
                                         /\ state = expected_state(provider, web, c, state)]
       IN  web' = IF verdict = "pass"
                  THEN [clear_after_verification(provider, web, c, state)
                           EXCEPT !.req[r] = [f0 EXCEPT !.pc = "exchanging",
                                      !.user = stored_user(provider, web, c, state)]]
                  ELSE [web EXCEPT !.req[r] = [f0 EXCEPT !.outcome = "error"]]
    /\ calls' = calls + 1
    /\ UNCHANGED <<provider, key, now, rows, svc, pf>>

\* exchange_code_for_tokens returned tokens (the provider grants them for a
\* code only): save_tokens(token_data) and _load_auth
ExchangeDone(r, td) ==
    /\ web.req[r].pc = "exchanging"
    /\ web.req[r].code
    /\ rows' = Saved(provider, key, rows, web.req[r].user, td, NoAccount, now)
    /\ web' = [web EXCEPT !.req[r].pc = "account_info", !.req[r].td = td,
                          !.req[r].exchanged = TRUE]
    /\ UNCHANGED <<provider, key, now, svc, calls, pf>>

\* the provider refused the exchange, or the request failed: the error page
ExchangeFail(r) ==
    /\ web.req[r].pc = "exchanging"
    /\ web' = [web EXCEPT !.req[r].pc = "idle", !.req[r].outcome = "error",
                          !.req[r].exchanged = TRUE]
    /\ UNCHANGED <<provider, key, now, rows, svc, calls, pf>>

\* get_account_info returned: save_tokens(token_data, account_info), the
\* session keys are deleted (dropbox, box), the success page
AccountInfoDone(r, ai) ==
    /\ web.req[r].pc = "account_info"
    /\ rows' = Saved(provider, key, rows, web.req[r].user, web.req[r].td, ai, now)
    /\ web' = [clear_on_success(provider, web, web.req[r].sess)
                  EXCEPT !.req[r].pc = "idle", !.req[r].outcome = "success"]
    /\ UNCHANGED <<provider, key, now, svc, calls, pf>>

\* get_account_info raised: the error page, except for onedrive, which
\* catches it and shows the success page without account details
AccountInfoFail(r) ==
    /\ web.req[r].pc = "account_info"
    /\ web' = [web EXCEPT !.req[r].pc = "idle",
                          !.req[r].outcome =
                              IF provider = "onedrive" THEN "success" ELSE "error"]
    /\ UNCHANGED <<provider, key, now, rows, svc, calls, pf>>

\* the state a callback request can carry: absent, an issued one, or one
\* that was never issued
StateParams(w) == 0..(w.issued + 1)

NextCallback ==
    \/ \E c \in Sessions, u \in Principals : Authorize(c, u)
    \/ \E r \in Requests, c \in Sessions, code \in BOOLEAN,
          state \in StateParams(web), error \in BOOLEAN :
           CallbackBegin(r, c, code, state, error)
    \/ \E r \in Requests, td \in TokenResponses : ExchangeDone(r, td)
    \/ \E r \in Requests : ExchangeFail(r)
    \/ \E r \in Requests, ai \in AccountInfos : AccountInfoDone(r, ai)
    \/ \E r \in Requests : AccountInfoFail(r)

SpecCallback == Init /\ [][NextCallback]_vars

\* a callback request begins in slot r on this step
CallbackBegins(r) == web.req[r].pc = "idle" /\ web'.req[r].seq # web.req[r].seq

\* C22: a callback request without a code, without a state, or with a state
\* other than the stored one ends at once with the error page and leaves the
\* credential store as it was; the provider is called for the exchange only
\* by requests that carried a code and the stored state
C22_CallbackNeedsCodeAndState ==
    [][\A r \in Requests :
          /\ (CallbackBegins(r) /\ (~web'.req[r].code \/ ~web'.req[r].matched)) =>
                 /\ web'.req[r].outcome = "error"
                 /\ web'.req[r].pc = "idle"
                 /\ rows' = rows
          /\ web'.req[r].exchanged =>
                 (web'.req[r].code /\ web'.req[r].matched)]_vars

\* C23: the step that ends a callback with the success page leaves the state
\* it presented stored nowhere, and a callback request whose state is not
\* the stored one ends at once with the error page, without an exchange and
\* without a write
C23_SuccessClearsState ==
    [][\A r \in Requests :
          /\ (web.req[r].outcome # "success" /\ web'.req[r].outcome = "success") =>
                 /\ web'.session[web.req[r].sess].state # web.req[r].state
                 /\ cache_get(web'.cache, web.req[r].state) = 0
          /\ (CallbackBegins(r) /\ ~web'.req[r].matched) =>
                 /\ web'.req[r].outcome = "error"
                 /\ web'.req[r].pc = "idle"
                 /\ ~web'.req[r].exchanged
                 /\ rows' = rows]_vars

\* C23 witness: one callback succeeded with a state, and a later one that
\* presented the same state and a code in the same session was rejected
C23_ReplayRejected ==
    \E r, q \in Requests :
        /\ r # q
        /\ web.req[r].outcome = "success"
        /\ web.req[q].outcome = "error" /\ web.req[q].pc = "idle"
        /\ web.req[q].code /\ ~web.req[q].matched /\ ~web.req[q].exchanged
        /\ web.req[q].state = web.req[r].state
        /\ web.req[q].sess = web.req[r].sess
        /\ web.session[web.req[r].sess] = NoSession
        /\ web.cache = {}

\* ---------------------------------------------------------------------------
\* The disconnect and contents endpoints
\* ---------------------------------------------------------------------------

HTTP_OK == 200
HTTP_BAD_REQUEST == 400
HTTP_UNAUTHORIZED == 401
HTTP_NOT_FOUND == 404
HTTP_SERVER_ERROR == 500
NoHttpResponse == 0

\* the status of HttpError raised when is_connected() is false
not_connected_status(p) == IF p = "google" THEN HTTP_NOT_FOUND ELSE HTTP_BAD_REQUEST

\* list_google_drive_contents refreshes the token itself before the call
refreshes_in_view(p) == p = "google"

\* the endpoint call in progress: its name, the service instance it made,
\* whether is_connected() held, and where the view is
EndpointFrame(name, s, connected, phase) ==
    [fn |-> "endpoint", name |-> name, s |-> s, connected |-> connected,
     phase |-> phase]

\* the status the endpoint answers with, NoHttpResponse while it is running;
\* f is the frame of the service instance the view made
endpoint_status(p, e, f) ==
    IF ~e.connected THEN not_connected_status(p)
    ELSE IF f.pc # "idle" THEN NoHttpResponse
    ELSE IF e.name = "disconnect" THEN HTTP_OK
    ELSE IF e.phase = "refresh"
         THEN CASE f.result = "True" -> NoHttpResponse
                [] f.result = "False" -> HTTP_UNAUTHORIZED
                [] OTHER -> HTTP_SERVER_ERROR
    ELSE IF f.result = "ok" THEN HTTP_OK
    ELSE HTTP_SERVER_ERROR

\* no endpoint call is running
EndpointIdle ==
    pf.fn = "endpoint" => endpoint_status(provider, pf, svc[pf.s]) # NoHttpResponse

\* DELETE disconnect for user u: a new service instance, HttpError unless
\* connected, else disconnect() up to its first I/O
DisconnectEndpoint(s, u, creds) ==
    /\ EndpointIdle
    /\ svc[s].pc = "idle"
    /\ calls < MaxCalls
    /\ LET f0 == [IdleFrame(u, get_active(rows, u)) EXCEPT !.seq = svc[s].seq]
           f == BeginCall(f0, "disconnect")
       IN  IF ~is_connected(f0.auth)
           THEN /\ svc' = [svc EXCEPT ![s] = [f0 EXCEPT !.seq = 1 - svc[s].seq]]
                /\ rows' = rows
                /\ pf' = EndpointFrame("disconnect", s, FALSE, "refused")
           ELSE /\ Settle(s, revoke_entry(provider, key, f, now, creds), rows)
                /\ pf' = EndpointFrame("disconnect", s, TRUE, "call")
    /\ calls' = calls + 1
    /\ UNCHANGED <<provider, key, now, web>>

\* GET contents for user u: a new service instance, HttpError unless
\* connected; google's view refreshes a token that needs it, and every
\* view then lists the folder through _make_api_request
ContentsEndpoint(s, u, creds) ==
    /\ EndpointIdle
    /\ svc[s].pc = "idle"
    /\ calls < MaxCalls
    /\ LET f0 == [IdleFrame(u, get_active(rows, u)) EXCEPT !.seq = svc[s].seq]
       IN  IF ~is_connected(f0.auth)
           THEN /\ svc' = [svc EXCEPT ![s] = [f0 EXCEPT !.seq = 1 - svc[s].seq]]
                /\ pf' = EndpointFrame("contents", s, FALSE, "refused")
           ELSE IF refreshes_in_view(provider)
                   /\ needs_refresh(f0.auth, now, DEFAULT_BUFFER_MINUTES)
           THEN LET f == [BeginCall(f0, "refresh") EXCEPT !.refresh_called = TRUE]
                    o == refresh_entry(key, f.auth, creds)
                IN  /\ svc' = [svc EXCEPT ![s] =
                           CASE o = "False" -> refresh_failed(f)
                             [] o = "ConfigurationError" -> ensure_raised(f, o)
                             [] OTHER -> [f EXCEPT !.pc = "refreshing"]]
                    /\ pf' = EndpointFrame("contents", s, TRUE, "refresh")
           ELSE /\ svc' = [svc EXCEPT ![s] =
                       after_ensure(key, BeginCall(f0, "api"), now, creds)]
                /\ pf' = EndpointFrame("contents", s, TRUE, "call")
    /\ calls' = calls + 1
    /\ UNCHANGED <<provider, key, now, rows, web>>

\* google's view after its refresh returned True: _load_auth, then the
\* listing through _make_api_request
ContentsAfterRefresh(creds) ==
    /\ pf.fn = "endpoint" /\ pf.name = "contents" /\ pf.phase = "refresh"
    /\ svc[pf.s].pc = "idle" /\ svc[pf.s].result = "True"
    /\ LET f0 == [svc[pf.s] EXCEPT !.auth = get_active(rows, svc[pf.s].user)]
       IN  svc' = [svc EXCEPT ![pf.s] =
               after_ensure(key, BeginCall(f0, "api"), now, creds)]
    /\ pf' = [pf EXCEPT !.phase = "call"]
    /\ UNCHANGED <<provider, key, now, rows, calls, web>>

NextEndpoints ==
    \/ Tick
    \/ \E s \in Services, td \in TokenResponses, ai \in AccountInfos :
          EndpointIdle /\ SaveTokens(s, td, ai)
    \/ \E s \in Services : SaveTokensSave(s)
    \/ \E s \in Services, u \in Users, creds \in BOOLEAN :
          DisconnectEndpoint(s, u, creds)
    \/ \E s \in Services, u \in Users, creds \in BOOLEAN :
          ContentsEndpoint(s, u, creds)
    \/ \E creds \in BOOLEAN : ContentsAfterRefresh(creds)
    \/ \E s \in Services, r \in RefreshResponses : RefreshOk(s, r)
    \/ \E s \in Services : RefreshFail(s)
    \/ \E s \in Services, status \in HttpStatuses : RequestDone(s, status)
    \/ \E s \in Services : RevokeDone(s)

SpecEndpoints == Init /\ [][NextEndpoints]_vars

\* C24: an endpoint called for a principal who is not connected answers 400,
\* and the contents endpoint answers 500 when the token refresh or the
\* provider call fails
C24_EndpointStatuses ==
    pf.fn = "endpoint" =>
        LET f == svc[pf.s]
            status == endpoint_status(provider, pf, f)
        IN  /\ ~pf.connected => status = HTTP_BAD_REQUEST
            /\ (pf.connected /\ pf.name = "contents" /\ f.pc = "idle"
                /\ f.result \in {"False", "TokenRefreshError", "APIError",
                                 "ConfigurationError"})
                   => status = HTTP_SERVER_ERROR

\* ---------------------------------------------------------------------------
\* The token cipher called directly
\* ---------------------------------------------------------------------------

\* the tokens handed to _encrypt_token: None, the empty string and strings
CipherTokens == {Null, Str(""), Str("A1"), Str("R1"), Str("A2"), Str("A4")}

\* the values found in a token column that this configuration did not
\* write: plaintext, and ciphertext made under either key
StoredValues ==
    {Null, Str("")}
        \cup {Str(t) : t \in {"A1", "R1"}}
        \cup {Fernet(k, t) : k \in {"k1", "k2"}, t \in {"A1", "R1"}}

\* no decrypted value yet
NotRead == [kind |-> "none", key |-> "", text |-> ""]

\* the cipher's frame: the token given to _encrypt_token, the stored value,
\* whether _encrypt_token wrote it, and what _decrypt_token returned
CipherFrame(op, token, stored, written, read) ==
    [fn |-> "cipher", op |-> op, token |-> token, stored |-> stored,
     written |-> written, read |-> read]

InitCipher ==
    /\ provider \in Providers
    /\ key \in KeyChoices
    /\ now = 0
    /\ rows = <<>>
    /\ svc = [s \in Services |-> IdleFrame(1, NoAuth)]
    /\ calls = 0
    /\ pf = NoProbe
    /\ web = NoWeb

\* _encrypt_token(token)
CallEncrypt(token) ==
    /\ pf' = CipherFrame("encrypt", token, encrypt_token(key, token), TRUE, NotRead)
    /\ UNCHANGED <<provider, key, now, rows, svc, calls, web>>

\* a value in the column that was written under another configuration
FindStored(v) ==
    /\ pf' = CipherFrame("stored", Null, v, FALSE, NotRead)
    /\ UNCHANGED <<provider, key, now, rows, svc, calls, web>>

\* _decrypt_token(stored)
CallDecrypt ==
    /\ pf.fn = "cipher"
    /\ pf' = [pf EXCEPT !.op = "decrypt", !.read = decrypt_token(key, pf.stored)]
    /\ UNCHANGED <<provider, key, now, rows, svc, calls, web>>

NextCipher ==
    \/ \E token \in CipherTokens : CallEncrypt(token)
    \/ \E v \in StoredValues : FindStored(v)
    \/ CallDecrypt

SpecCipher == InitCipher /\ [][NextCipher]_vars

\* C25: with a key configured, decrypting what _encrypt_token returned for
\* a non-empty token gives the token back
C25_RoundTrip ==
    (pf.fn = "cipher" /\ pf.op = "decrypt" /\ pf.written /\ key # NoKey
         /\ Truthy(pf.token))
        => pf.read = pf.token

\* C25 witness: under a Fernet key a token was encrypted to ciphertext and
\* decrypted back
C25_EncryptedAndBack ==
    /\ pf.fn = "cipher" /\ pf.op = "decrypt" /\ pf.written
    /\ key = "k1"
    /\ pf.token = Str("A1")
    /\ pf.stored = Fernet("k1", "A1")
    /\ pf.read = Str("A1")

\* C26: with no key configured, _encrypt_token and _decrypt_token return
\* their argument, whatever it is, and raise nothing
C26_NoKeyIsIdentity ==
    (pf.fn = "cipher" /\ key = NoKey) =>
        /\ pf.stored # Raised /\ pf.read # Raised
        /\ pf.written => pf.stored = pf.token
        /\ pf.op = "decrypt" => pf.read = pf.stored

\* C26 witness: without a key a token went through both operations unchanged
C26_PlaintextThrough ==
    /\ pf.fn = "cipher" /\ pf.op = "decrypt" /\ pf.written
    /\ key = NoKey
    /\ pf.token = Str("R1") /\ pf.stored = Str("R1") /\ pf.read = Str("R1")

\* the stored value is ciphertext made under the configured key
Decryptable(k, v) == ValidKey(k) /\ v.kind = "fernet" /\ v.key = k

\* C27: _decrypt_token always returns a value, and for a stored value that
\* is not ciphertext of the configured key it returns the stored value
C27_DecryptNeverRaises ==
    (pf.fn = "cipher" /\ pf.op = "decrypt") =>
        /\ pf.read # Raised
        /\ pf.read # NotRead
        /\ ~Decryptable(key, pf.stored) => pf.read = pf.stored

\* C27 witness: with a key configured, a plaintext value and a value
\* encrypted under another key were each read back as stored
C27_LegacyPlaintextRead ==
    /\ pf.fn = "cipher" /\ pf.op = "decrypt" /\ ~pf.written
    /\ key = "k1"
    /\ pf.stored \in {Str("A1"), Fernet("k2", "A1")}
    /\ pf.read = pf.stored

\* ---------------------------------------------------------------------------
\* The service under every setting of TOKEN_ENCRYPTION_KEY
\* ---------------------------------------------------------------------------

\* as Init, with the key unset, a Fernet key, or a string that is no Fernet
\* key
InitKeys ==
    /\ provider \in Providers
    /\ key \in KeyChoices
    /\ now = 0
    /\ rows \in InitialTables(provider, key)
    /\ svc = [s \in Services |-> IdleFrame(1, get_active(rows, 1))]
    /\ calls = 0
    /\ pf = NoProbe
    /\ web = NoWeb

SpecKeys == InitKeys /\ [][Next]_vars

\* C28: with a key configured, every non-empty stored access token and
\* refresh token is ciphertext, never the token as it was written
C28_StoredIsCiphertext ==
    key # NoKey =>
        \A i \in 1..Len(rows) :
            /\ Truthy(rows[i].access_token) => rows[i].access_token.kind = "fernet"
            /\ Truthy(rows[i].refresh_token) => rows[i].refresh_token.kind = "fernet"

\* ---------------------------------------------------------------------------
\* get_authorization_url called directly
\* ---------------------------------------------------------------------------

\* the arguments of the model's calls; secrets.token_urlsafe draws from
\* RandomStates
RedirectUris == {CALLBACK_URL, "cb2"}
GivenStates == {NoState, 1, 2}
RandomStates == {11, 12}

\* a URL: the endpoint, whether the query is percent-encoded (urlencode) or
\* joined as it is, and the query parameters in order
Url(p, encoded, params) == [base |-> p, encoded |-> encoded, params |-> params]
ConfigurationError == [base |-> "ConfigurationError", encoded |-> FALSE, params |-> <<>>]

\* the state parameter, present only for a truthy state
state_param(state) ==
    IF state = NoState THEN <<>> ELSE << <<"state", ToString(state)>> >>

\* get_authorization_url of the four services: the URL returned (or the
\* exception raised) and the cache after the call; rand is the value
\* secrets.token_urlsafe returns if it is called
get_authorization_url(p, creds, c, u, redirect_uri, state, rand) ==
    IF ~creds THEN [url |-> ConfigurationError, cache |-> c]
    ELSE CASE p = "dropbox" ->
                [url |-> Url(p, FALSE,
                     << <<"client_id", "id">>, <<"redirect_uri", redirect_uri>>,
                        <<"response_type", "code">>,
                        <<"token_access_type", "offline">> >> \o state_param(state)),
                 cache |-> c]
           [] p = "box" ->
                [url |-> Url(p, FALSE,
                     << <<"client_id", "id">>, <<"redirect_uri", redirect_uri>>,
                        <<"response_type", "code">> >> \o state_param(state)),
                 cache |-> c]
           [] p = "google" ->
                [url |-> Url(p, TRUE,
                     << <<"client_id", "id">>, <<"redirect_uri", redirect_uri>>,
                        <<"scope", "DEFAULT_SCOPES">>, <<"response_type", "code">>,
                        <<"access_type", "offline">>, <<"prompt", "consent">> >>
                        \o state_param(state)),
                 cache |-> c]
           [] OTHER ->
                LET st == IF state = NoState THEN rand ELSE state
                IN  [url |-> Url(p, TRUE,
                         << <<"client_id", "id">>, <<"redirect_uri", redirect_uri>>,
                            <<"response_type", "code">>, <<"scope", "DEFAULT_SCOPES">>,
                            <<"response_mode", "query">>, <<"state", ToString(st)>> >>),
                     cache |-> url_cache_set(c, u, st, redirect_uri)]

\* no call yet
NoArgs == <<>>

InitAuthUrl ==
    /\ provider \in Providers
    /\ key = "k1"
    /\ now = 0
    /\ rows = <<>>
    /\ svc = [s \in Services |-> IdleFrame(1, NoAuth)]
    /\ calls = 0
    /\ pf = NoProbe
    /\ web = NoWeb

\* service.get_authorization_url(redirect_uri, state) for user u; the frame
\* keeps this call and the one before it
CallAuthUrl(u, creds, redirect_uri, state, rand) ==
    /\ calls < MaxCalls
    /\ LET o == get_authorization_url(provider, creds, web.url_cache, u,
                                      redirect_uri, state, rand)
       IN  /\ pf' = [fn |-> "auth_url",
                     args |-> <<u, creds, redirect_uri, state>>,
                     url |-> o.url,
                     cache_changed |-> o.cache # web.url_cache,
                     prev_args |-> IF pf.fn = "auth_url" THEN pf.args ELSE NoArgs,
                     prev_url |-> IF pf.fn = "auth_url" THEN pf.url
                                  ELSE ConfigurationError]
           /\ web' = [web EXCEPT !.url_cache = o.cache]
    /\ calls' = calls + 1
    /\ UNCHANGED <<provider, key, now, rows, svc>>

NextAuthUrl ==
    \E u \in Users, creds \in BOOLEAN, redirect_uri \in RedirectUris,
       state \in GivenStates, rand \in RandomStates :
        CallAuthUrl(u, creds, redirect_uri, state, rand)

SpecAuthUrl == InitAuthUrl /\ [][NextAuthUrl]_vars

\* C29: two calls of get_authorization_url with the same redirect URI and
\* the same state, present or absent, return the same URL, and no call
\* changes anything stored
C29_AuthUrlDeterministic ==
    pf.fn = "auth_url" =>
        /\ pf.prev_args = pf.args => pf.prev_url = pf.url
        /\ ~pf.cache_changed

\* C30: no step changes the connected_at of a row that exists, and a row a
\* step creates gets the time of that step as its connected_at
C30_ConnectedAtImmutable ==
    [][/\ Len(rows') >= Len(rows)
       /\ \A i \in 1..Len(rows) :
              /\ rows'[i].id = rows[i].id
              /\ rows'[i].connected_at = rows[i].connected_at
       /\ \A i \in (Len(rows) + 1)..Len(rows') :
              rows'[i].connected_at = now]_vars

\* C30 witness: a user connected at time 0 was disconnected and connected
\* again by save_tokens at time 300, and connected_at is still 0
C30_ReconnectedKeepsConnectedAt ==
    \E s, t \in Services :
        /\ now = 300
        /\ svc[s].op = "save_tokens" /\ svc[s].result = "ok"
        /\ svc[t].op = "disconnect" /\ svc[t].result = "True"
        /\ svc[t].user = svc[s].user
        /\ HasAuth(svc[t].auth) /\ ~svc[t].auth.is_active
        /\ RowOf(rows, svc[s].user).is_active
        /\ RowOf(rows, svc[s].user).expires_at = 300 + 600
        /\ RowOf(rows, svc[s].user).connected_at = 0

\* the token columns of every row are the same before and after the step
TokensUnchanged ==
    /\ Len(rows') = Len(rows)
    /\ \A i \in 1..Len(rows) :
           /\ rows'[i].access_token = rows[i].access_token
           /\ rows'[i].refresh_token = rows[i].refresh_token
           /\ rows'[i].expires_at = rows[i].expires_at

\* C31: the step in which the refresh POST of an instance ends makes
\* refresh_access_token return True or False, never raise; when the POST was
\* rejected or failed it returns False, the token columns of the stored rows
\* and the tokens of the instance stay as they were, and a direct caller
\* gets False (in a disconnect the same step goes on to disconnect's own
\* save, so there only the instance is compared)
C31_RefreshFailureReturnsFalse ==
    [][\A s \in Services :
          (Steps(s) /\ svc[s].pc = "refreshing") =>
              /\ svc'[s].refresh_ret \in {"True", "False"}
              /\ svc'[s].refresh_ret = "False" =>
                     /\ svc[s].op # "disconnect" => TokensUnchanged
                     /\ svc'[s].auth.access_token = svc[s].auth.access_token
                     /\ svc'[s].auth.refresh_token = svc[s].auth.refresh_token
                     /\ svc'[s].auth.expires_at = svc[s].auth.expires_at
                     /\ svc[s].op = "refresh" =>
                            (svc'[s].pc = "idle" /\ svc'[s].result = "False")]_vars

\* C31 witness: a direct refresh_access_token call on a record with a refresh
\* token sent its POST, the POST failed, and the call returned False
C31_RefreshRejected ==
    \E s \in Services :
        /\ svc[s].op = "refresh" /\ svc[s].pc = "idle"
        /\ svc[s].refresh_ret = "False" /\ svc[s].result = "False"
        /\ HasAuth(svc[s].auth)
        /\ Truthy(decrypted_refresh_token(key, svc[s].auth))
        /\ RowOf(rows, svc[s].user).access_token = svc[s].auth.access_token

\* ---------------------------------------------------------------------------
\* The typed errors
\* ---------------------------------------------------------------------------

ErrorClasses ==
    {"IntegrationError", "AuthenticationError", "TokenRefreshError", "APIError",
     "ConfigurationError", "RateLimitError"}

\* an optional argument: not passed (None), or passed with a value
NotGiven == [given |-> FALSE, value |-> ""]
NoDetails == [given |-> FALSE, value |-> {}]
Given(v) == [given |-> TRUE, value |-> v]

\* the arguments the model constructs errors with; details are the sets of
\* keys of the dict
MessageArgs == {NotGiven, Given("Test error"), Given("API failed")}
CodeArgs == {NotGiven, Given(""), Given("TEST_CODE")}
DetailsArgs == {NoDetails, Given({}), Given({"key"})}
StatusArgs == {NoStatusCode, 401}

\* the default of the message parameter of each subclass
default_message(cls) ==
    CASE cls = "AuthenticationError" -> "Authentication failed"
      [] cls = "TokenRefreshError" -> "Token refresh failed"
      [] cls = "APIError" -> "API call failed"
      [] cls = "ConfigurationError" -> "Configuration error"
      [] OTHER -> "Rate limit exceeded"

\* every subclass passing the base class's default code
error_code_generic(cls) == "INTEGRATION_ERROR"

\* the code each subclass passes to IntegrationError.__init__
error_code(cls) ==
    CASE cls = "AuthenticationError" -> "AUTHENTICATION_ERROR"
      [] cls = "TokenRefreshError" -> "TOKEN_REFRESH_ERROR"
      [] cls = "APIError" -> "API_ERROR"
      [] cls = "ConfigurationError" -> "CONFIGURATION_ERROR"
      [] OTHER -> "RATE_LIMIT_ERROR"

\* IntegrationError.__init__: `code or "INTEGRATION_ERROR"`, `details or {}`
integration_error_init(message, code, details) ==
    [message |-> message,
     code |-> IF code.given /\ code.value # "" THEN code.value
              ELSE "INTEGRATION_ERROR",
     details |-> IF details.given /\ details.value # {} THEN details.value ELSE {}]

\* cls(...): the attributes of the constructed error; message is required
\* for IntegrationError, status_code exists on APIError only
new_error(cls, message, code, status_code, details) ==
    LET msg == IF message.given THEN message.value ELSE default_message(cls)
        base == IF cls = "IntegrationError"
                THEN integration_error_init(msg, code, details)
                ELSE integration_error_init(msg, Given(error_code(cls)), details)
    IN  [cls |-> cls, message |-> base.message, code |-> base.code,
         details |-> base.details,
         status_code |-> IF cls = "APIError" THEN status_code ELSE NoStatusCode]

InitErrors ==
    /\ provider \in Providers
    /\ key = "k1"
    /\ now = 0
    /\ rows = <<>>
    /\ svc = [s \in Services |-> IdleFrame(1, NoAuth)]
    /\ calls = 0
    /\ pf = NoProbe
    /\ web = NoWeb

\* IntegrationError(message, code, details)
NewIntegrationError(message, code, details) ==
    /\ message.given
    /\ pf' = [fn |-> "error", cls |-> "IntegrationError", message |-> message,
              code |-> code, status_code |-> NoStatusCode, details |-> details,
              err |-> new_error("IntegrationError", message, code, NoStatusCode,
                                details)]
    /\ UNCHANGED <<provider, key, now, rows, svc, calls, web>>

\* a subclass constructed with its own arguments
NewTypedError(cls, message, status_code, details) ==
    /\ cls # "IntegrationError"
    /\ cls # "APIError" => status_code = NoStatusCode
    /\ pf' = [fn |-> "error", cls |-> cls, message |-> message,
              code |-> NotGiven, status_code |-> status_code, details |-> details,
              err |-> new_error(cls, message, NotGiven, status_code, details)]
    /\ UNCHANGED <<provider, key, now, rows, svc, calls, web>>

NextErrors ==
    \/ \E message \in MessageArgs, code \in CodeArgs, details \in DetailsArgs :
           NewIntegrationError(message, code, details)
    \/ \E cls \in ErrorClasses, message \in MessageArgs, status_code \in StatusArgs,
          details \in DetailsArgs :
           NewTypedError(cls, message, status_code, details)

SpecErrors == InitErrors /\ [][NextErrors]_vars

\* the code of every subclass is the fixed one of its kind, and APIError
\* has the status code it was given
TypedCodesFixed ==
    /\ pf.cls = "AuthenticationError" => pf.err.code = "AUTHENTICATION_ERROR"
    /\ pf.cls = "TokenRefreshError" => pf.err.code = "TOKEN_REFRESH_ERROR"
    /\ pf.cls = "ConfigurationError" => pf.err.code = "CONFIGURATION_ERROR"
    /\ pf.cls = "APIError" =>
           (pf.err.code = "API_ERROR" /\ pf.err.status_code = pf.status_code)

\* the message and the details an error was constructed with are kept
MessageAndDetailsKept ==
    /\ pf.message.given => pf.err.message = pf.message.value
    /\ pf.details.given => pf.err.details = pf.details.value

\* C32 (as claimed): every subclass has its fixed code, APIError its status
\* code, and a plain IntegrationError has the message, the code and the
\* details it was constructed with
C32_ErrorsKeepWhatTheyWereGiven ==
    pf.fn = "error" =>
        /\ TypedCodesFixed
        /\ MessageAndDetailsKept
        /\ (pf.cls = "IntegrationError" /\ pf.code.given) =>
               pf.err.code = pf.code.value

\* C32 (amended): as claimed, except that a plain IntegrationError keeps a
\* non-empty code and has INTEGRATION_ERROR for an empty or omitted one
C32_ErrorsKeepNonEmptyCode ==
    pf.fn = "error" =>
        /\ TypedCodesFixed
        /\ MessageAndDetailsKept
        /\ pf.cls = "IntegrationError" =>
               pf.err.code = IF pf.code.given /\ pf.code.value # ""
                             THEN pf.code.value ELSE "INTEGRATION_ERROR"

\* C32 witness: the plain error of the tests, and an APIError with status 401
C32_TestCodeKept ==
    /\ pf.fn = "error" /\ pf.cls = "IntegrationError"
    /\ pf.code = Given("TEST_CODE") /\ pf.details = Given({"key"})
    /\ pf.err.message = "Test error" /\ pf.err.code = "TEST_CODE"
    /\ pf.err.details = {"key"}

\* C33: the step in which _make_api_request sends its request comes after
\* _ensure_valid_token has passed in the same call: either the record did
\* not need a refresh, or the refresh made in the call returned True; and
\* after a refresh the bearer token of the request is the access token of
\* the refresh response
C33_RequestAfterEnsure ==
    [][\A s \in Services :
          (Steps(s) /\ svc'[s].pc = "requesting") =>
              /\ svc'[s].requested
              /\ HasAuth(svc'[s].auth)
              /\ IF svc'[s].refresh_called
                 THEN /\ svc'[s].refresh_ret = "True"
                      /\ svc'[s].hdr = Str(svc'[s].rr.access_token)
                 ELSE /\ ~needs_refresh(svc[s].auth, now, DEFAULT_BUFFER_MINUTES)
                      /\ svc'[s].hdr = decrypted_access_token(key, svc[s].auth)]_vars

\* C33 witness: an API call refreshed a token "A1" and sent its request with
\* the new token "A4"
C33_SentWithNewToken ==
    \E s \in Services :
        /\ svc[s].op = "api" /\ svc[s].requested
        /\ svc[s].refresh_called /\ svc[s].refresh_ret = "True"
        /\ svc[s].rr.access_token = "A4"
        /\ svc[s].hdr = Str("A4")
        /\ svc[s].result = "ok"

\* the step in which a refresh made by _ensure_valid_token saves its result
RefreshWrites(s) ==
    /\ Steps(s)
    /\ svc[s].pc = "refreshing"
    /\ svc[s].op \in {"ensure", "api"}
    /\ svc'[s].refresh_ret = "True"

\* C34: every refresh made by _ensure_valid_token writes its whole result:
\* after its save the stored row is the record of that instance, with the
\* access token and the expiry of its own response, the refresh token of
\* its own response (or, when the response has none or the provider is
\* Dropbox, the one the instance held), and is_active as the instance held
\* it; so after two racing refreshes the row is that of the last writer
C34_LastRefreshWinsWhole ==
    [][\A s \in Services :
          RefreshWrites(s) =>
              LET row == RowOf(rows', svc[s].user)
                  r == svc'[s].rr
              IN  /\ row = svc'[s].auth
                  /\ decrypt_token(key, row.access_token) = Str(r.access_token)
                  /\ row.expires_at = now + ExpiresIn(r, refresh_default_expiry(provider))
                  /\ row.refresh_token =
                         IF provider # "dropbox" /\ Truthy(r.refresh_token)
                         THEN encrypt_token(key, r.refresh_token)
                         ELSE svc[s].auth.refresh_token
                  /\ row.is_active = svc[s].auth.is_active]_vars

\* C34 witness: two instances of the same user both refreshed with different
\* responses; the row is the record of the one that wrote last, which kept
\* the refresh token it had loaded before the other one wrote
C34_BothRefreshedLastWins ==
    \E s, t \in Services :
        /\ s # t /\ svc[s].user = svc[t].user
        /\ provider # "dropbox"
        /\ svc[s].op = "ensure" /\ svc[s].refresh_ret = "True"
        /\ svc[t].op = "ensure" /\ svc[t].refresh_ret = "True"
        /\ svc[s].rr.access_token = "A4" /\ svc[t].rr.access_token = "A5"
        /\ RowOf(rows, svc[t].user) = svc[t].auth
        /\ RowOf(rows, svc[t].user).is_active
        /\ decrypt_token(key, svc[s].auth.refresh_token) = Str("R2")
        /\ decrypt_token(key, svc[t].auth.refresh_token) = Str("R1")

\* C35: while a save_tokens call is between its update_or_create and its
\* save, the stored row of its user does not combine the is_active and
\* expires_at the call has written with the access token stored before the
\* call
C35_SaveTokensAtomic ==
    \A s \in Services :
        svc[s].pc = "upserted" =>
            LET row == RowOf(rows, svc[s].user)
            IN  ~(/\ row.is_active
                  /\ row.expires_at = svc[s].t0
                         + ExpiresIn(svc[s].td, DEFAULT_TOKEN_EXPIRY(provider))
                  /\ row.access_token = svc[s].auth.access_token
                  /\ decrypt_token(key, row.access_token) # Str(svc[s].td.access_token))

\* C36: the i-th sleep of retry_api_call, made between invocation i - 1 and
\* invocation i (counted from 0), lasts base_delay * backoff_factor^(i - 1);
\* while the call runs there has been one sleep after every invocation, and
\* once it has returned or raised there is none after the last invocation
C36_BackoffDelays ==
    pf.fn = "retry_api_call" =>
        /\ \A i \in 1..Len(pf.sleeps) :
               pf.sleeps[i] = pf.base_delay * Pow(pf.backoff_factor, i - 1)
        /\ pf.state = "running" => Len(pf.sleeps) = Len(pf.hist)
        /\ (pf.state # "running" /\ Len(pf.hist) > 0)
               => Len(pf.sleeps) = Len(pf.hist) - 1
        /\ Len(pf.hist) = 0 => Len(pf.sleeps) = 0

\* C36 witness: with the defaults four invocations failed; the sleeps were
\* 1, 2 and 4 seconds and none followed the fourth failure
C36_OneTwoFour ==
    /\ pf.fn = "retry_api_call"
    /\ pf.max_retries = DEFAULT_MAX_RETRIES
    /\ pf.base_delay = DEFAULT_BASE_DELAY
    /\ pf.backoff_factor = DEFAULT_BACKOFF_FACTOR
    /\ Len(pf.hist) = 4 /\ pf.state = "raised"
    /\ pf.sleeps = <<1, 2, 4>>

\* request r takes a step of its exchange or of its account-info fetch
CallbackWorks(r) ==
    /\ web.req[r].pc \in {"exchanging", "account_info"}
    /\ web'.req[r] # web.req[r]

\* C37: a row is created or changed in the credential store only by a step
\* of a callback request, and it is the row of the principal whose authorize
\* call issued the state that the request presented
C37_TokensGoToWhoAuthorized ==
    [][\A i \in 1..Len(rows') :
          (i > Len(rows) \/ rows'[i] # rows[i]) =>
              \E r \in Requests :
                  /\ CallbackWorks(r)
                  /\ web.req[r].state \in 1..Len(web.owner)
                  /\ rows'[i].user = web.owner[web.req[r].state]]_vars

\* C37 witness: principals 1 and 2 both authorized; the callback that
\* presented the state of principal 2 succeeded and connected principal 2
C37_SecondPrincipalConnected ==
    \E r \in Requests :
        /\ Len(web.owner) >= 2
        /\ web.owner[1] = 1
        /\ web.req[r].outcome = "success"
        /\ web.req[r].state \in 2..Len(web.owner)
        /\ web.owner[web.req[r].state] = 2
        /\ web.req[r].user = 2
        /\ RowOf(rows, 2).is_active
        /\ Truthy(RowOf(rows, 2).access_token)

\* C38: a callback request that ended with the error page has not saved
\* tokens: td, the token response its save_tokens call wrote to the row of
\* its user, is still empty
C38_FailureWritesNothing ==
    \A r \in Requests :
        (web.req[r].pc = "idle" /\ web.req[r].outcome = "error")
            => web.req[r].td = NoResponse

\* C39: a state value passes the verification of at most one callback
\* request: the step in which a request passes leaves the state it
\* presented stored nowhere
C39_StatePassesOnce ==
    [][\A r \in Requests :
          (CallbackBegins(r) /\ web'.req[r].pc = "exchanging") =>
              /\ web'.session[web'.req[r].sess].state # web'.req[r].state
              /\ cache_get(web'.cache, web'.req[r].state) = 0]_vars

====
